---------------------------- MODULE Spec2Model ----------------------------
(***************************************************************************)
(* Stepping-stone (marche-pied) solver for the balanced transportation     *)
(* problem: cyclique.py, connexite.py, potentiels.py, marche_pied.py,      *)
(* transport_problem.py, the silent solver of complexite.py and the        *)
(* optimisation loop of main.py.                                           *)
(*                                                                         *)
(* Quantities.  The source works with Python floats.  Every quantity the   *)
(* solver creates is a sum and difference of the supplies, the demands,    *)
(* the repair value 1e-6 and the placeholder 1.0, so the model counts      *)
(* quantities in integer multiples of 1e-6 (one "unit"):                   *)
(*     1e-6  is 1 unit,   1.0  is 1000000 units.                           *)
(* On such values the source's comparisons against 1e-9 read:              *)
(*     x <= 1e-9  <=>  x <= 0        x > 1e-9   <=>  x >= 1                *)
(*     x < 1e-9   <=>  x <= 0        abs(x) < 1e-9  <=>  x = 0             *)
(* Costs are integers; a cost is compared with 1.0 as with the integer 1.  *)
(* A marginal cost is then an integer, and  marginal < -1e-9  is           *)
(* marginal <= -1.                                                         *)
(*                                                                         *)
(* A quantity above 0 and below 1e-9 is no multiple of 1e-6.  Floats give  *)
(* such quantities (0.3 - 0.1 - 0.2), and an allocation handed to the      *)
(* solver may hold them.  The specifications of the cycle-elimination loop *)
(* and of maximiser_sur_cycle on closed cycles therefore count in units of *)
(* 5e-10 (1e-9 is 2 units, 1e-6 is 2000); the variable unite says which    *)
(* unit a behaviour counts in, and the comparisons of cyclique.py and of   *)
(* the solvers against 1e-9 read                                           *)
(*     x <= 1e-9  <=>  x <= seuil     abs(x) < 1e-9  <=>  abs(x) < plafond *)
(* with seuil = 0, plafond = 1 for the unit 1e-6 and seuil = plafond = 2   *)
(* for the unit 5e-10.  epsilon and ONE below are written in units of      *)
(* 1e-6; no step of a behaviour that counts in units of 5e-10 uses them.   *)
(*                                                                         *)
(* Indices.  Python lists are 0-based; the sequences here are 1-based.     *)
(* A cell is <<i, j>> with i in 1..n and j in 1..m; "row 0" of the source  *)
(* is row 1 here.  Row-major order is the same in both.                    *)
(***************************************************************************)
EXTENDS Integers, Sequences, FiniteSets, TLC

VARIABLES
    costs,              \* cost matrix, n sequences of m integers
    supplies,           \* supply vector (units)
    demands,            \* demand vector (units)
    allocation,         \* the allocation matrix the solver owns (units)
    variant,            \* "mp": methode_marche_pied, "silent": resoudre_marche_pied_silencieux,
                        \* "main": the loop of resoudre_un_probleme
    init_kind,          \* how the run's initial allocation was built
    pc,                 \* position in the solver's loop
    nb_iterations,      \* the solver's iteration counter
    cycles_elimines,    \* cycles resolved in the current cycle-elimination loop
    aretes_ajoutees,    \* cells set to epsilon by rendre_connexe in this iteration
    u, v,               \* potentials of the last calculer_potentiels call
    arete,              \* entering cell <<i, j>> of this iteration, <<>> when none
    expired,            \* the wall-clock budget was seen exceeded
    exit_reason,        \* why the loop was left: "", "optimal", "cap", "cycle_cap", "deadline"
    nw_result,          \* result of the finished Northwest-Corner run, <<>> when none
    first_result,       \* allocation returned by the run that is being re-run, <<>> when none
    fn_in,              \* input of the function under test (function specifications)
    fn_out,             \* its output
    unite,              \* the unit the quantities are counted in: "1e-6" or "5e-10"
    entrantes           \* the entering cells of the current run, in order

vars == <<costs, supplies, demands, allocation, variant, init_kind, pc,
          nb_iterations, cycles_elimines, aretes_ajoutees, u, v, arete,
          expired, exit_reason, nw_result, first_result, fn_in, fn_out, unite,
          entrantes>>

-----------------------------------------------------------------------------
(* Bounds of the model and constants of the program *)

\* largest number of rows / columns of an instance, and of cells (rows x columns)
N == 3
M == 3
MaxCells == 6
\* costs are drawn from 1..MaxCost
MaxCost == 2
\* entries of the matrix that generates supplies and demands are 1..MaxQty (times 1.0)
MaxQty == 1

\* 1e-6 in units: the value rendre_connexe and the degenerate pivot write
epsilon == 1
\* 1.0 in units: the placeholder written into the entering cell, and the unit of
\* the supplies and demands of the instances
ONE == 1000000
\* 1e-9 in units, rounded down: x <= 1e-9 is x <= seuil
seuil == IF unite = "5e-10" THEN 2 ELSE 0
\* 1e-9 in units, rounded up: x < 1e-9 is x < plafond
plafond == IF unite = "5e-10" THEN 2 ELSE 1
\* iteration cap of the main loop
max_iterations == 1000
\* cap on cycle resolutions per cycle-elimination loop (silent solver, n < 1000)
max_cycles_elimination == 100

-----------------------------------------------------------------------------
(* Matrices and cells *)

NRows(a) == Len(a)
NCols(a) == IF Len(a) > 0 THEN Len(a[1]) ELSE 0

\* all cells of an n x m matrix in row-major order
RowMajor(n, m) ==
    [k \in 1..(n * m) |-> <<((k - 1) \div m) + 1, ((k - 1) % m) + 1>>]

At(a, c) == a[c[1]][c[2]]

SetCell(a, c, x) == [a EXCEPT ![c[1]][c[2]] = x]

\* cells with allocation > 0, row-major
cellules(a) ==
    SelectSeq(RowMajor(NRows(a), NCols(a)), LAMBDA c : At(a, c) > 0)

RECURSIVE SumSeq(_)
SumSeq(s) == IF s = <<>> THEN 0 ELSE Head(s) + SumSeq(Tail(s))

RowSum(a, i) == SumSeq(a[i])
ColSum(a, j) == SumSeq([i \in 1..NRows(a) |-> a[i][j]])

Range(s) == {s[k] : k \in 1..Len(s)}

RECURSIVE Reverse(_)
Reverse(s) == IF s = <<>> THEN <<>> ELSE Append(Reverse(Tail(s)), Head(s))

Abs(x) == IF x < 0 THEN -x ELSE x

Min2(x, y) == IF x <= y THEN x ELSE y

\* compute_total_cost
compute_total_cost(c, a) ==
    SumSeq([k \in 1..(NRows(a) * NCols(a)) |->
              At(c, RowMajor(NRows(a), NCols(a))[k]) * At(a, RowMajor(NRows(a), NCols(a))[k])])

-----------------------------------------------------------------------------
(* cyclique.py *)

\* est_cycle_transport_valide without its length test and its alternation test:
\* consecutive cells in a common row or column are enough
est_cycle_sans_alternance(cycle) ==
    \A k \in 1..Len(cycle) :
        LET curr == cycle[k]
            next_cell == cycle[(k % Len(cycle)) + 1]
        IN  curr[1] = next_cell[1] \/ curr[2] = next_cell[2]

\* est_cycle_transport_valide reduced to its length test
est_cycle_longueur_seule(cycle) == Len(cycle) >= 4

\* est_cycle_transport_valide: a cycle given as a sequence of cells.  idx0 is the
\* source's 0-based idx; the alternation test is skipped for the last index.
est_cycle_transport_valide(cycle) ==
    LET L == Len(cycle) IN
    IF L < 4 THEN FALSE
    ELSE \A idx0 \in 0..(L - 1) :
           LET curr == cycle[idx0 + 1]
               next_cell == cycle[((idx0 + 1) % L) + 1]
               prev == IF idx0 > 0 THEN cycle[idx0] ELSE cycle[L]
               same_row == curr[1] = next_cell[1]
               same_col == curr[2] = next_cell[2]
           IN  /\ same_row \/ same_col
               /\ idx0 < L - 1 =>
                    /\ ~(prev[1] = curr[1] /\ next_cell[1] = curr[1])
                    /\ ~(prev[2] = curr[2] /\ next_cell[2] = curr[2])

\* the ancestor chain x, parent[x], ... up to the root (whose parent is <<>>, None)
RECURSIVE chemin(_, _)
chemin(x, parent) ==
    IF x = <<>> THEN <<>> ELSE <<x>> \o chemin(parent[x], parent)

\* the part of a chain strictly before node stop
RECURSIVE Before(_, _)
Before(s, stop) ==
    IF s = <<>> \/ Head(s) = stop THEN <<>> ELSE <<Head(s)>> \o Before(Tail(s), stop)

\* reconstruire_cycle
reconstruire_cycle(cu, cv, parent) ==
    LET chemin_u == chemin(cu, parent)
        chemin_v == chemin(cv, parent)
        common == SelectSeq(chemin_u, LAMBDA x : x \in Range(chemin_v))
    IN  IF common = <<>> THEN <<cu, cv>>
        ELSE LET lca == Head(common) IN
             Before(chemin_u, lca) \o <<lca>> \o Reverse(Before(chemin_v, lca))

\* adj[(i, j)] of tester_acyclique: the other positive cells of row i (by column),
\* then the other positive cells of column j (by row)
voisins(cell, cells) ==
    SelectSeq(cells, LAMBDA c : c[1] = cell[1] /\ c[2] # cell[2])
    \o SelectSeq(cells, LAMBDA c : c[2] = cell[2] /\ c[1] # cell[1])

\* The BFS of tester_acyclique.  s: index of the next start cell of the outer loop;
\* pos: <<>> or <<cu, k>>, the cell being expanded and the index of its next neighbour.
RECURSIVE TA_Loop(_, _, _, _, _, _)
TA_Loop(cells, s, visite, parent, queue, pos) ==
    IF pos # <<>> THEN
        LET cu == pos[1]
            k == pos[2]
            nb == voisins(cu, cells)
        IN  IF k > Len(nb) THEN TA_Loop(cells, s, visite, parent, queue, <<>>)
            ELSE LET cv == nb[k] IN
                 IF cv \notin visite
                 THEN TA_Loop(cells, s, visite \cup {cv}, parent @@ (cv :> cu),
                              Append(queue, cv), <<cu, k + 1>>)
                 ELSE IF parent[cu] # cv
                      THEN LET cycle == reconstruire_cycle(cu, cv, parent) IN
                           IF est_cycle_transport_valide(cycle)
                           THEN <<FALSE, cycle>>
                           ELSE TA_Loop(cells, s, visite, parent, queue, <<cu, k + 1>>)
                      ELSE TA_Loop(cells, s, visite, parent, queue, <<cu, k + 1>>)
    ELSE IF queue # <<>> THEN
        TA_Loop(cells, s, visite, parent, Tail(queue), <<Head(queue), 1>>)
    ELSE IF s > Len(cells) THEN <<TRUE, <<>>>>
    ELSE IF cells[s] \in visite THEN TA_Loop(cells, s + 1, visite, parent, queue, <<>>)
    ELSE TA_Loop(cells, s + 1, visite \cup {cells[s]}, parent @@ (cells[s] :> <<>>),
                 <<cells[s]>>, <<>>)

\* tester_acyclique: <<acyclique, cycle>>
tester_acyclique(a) ==
    LET cells == cellules(a) IN
    IF cells = <<>> THEN <<TRUE, <<>>>>
    ELSE TA_Loop(cells, 1, {}, <<>>, <<>>, <<>>)

\* moins_cases reading the even (0-based) positions, those of the '+' cells
cases_paires(cycle) == [k \in 1..(Len(cycle) \div 2) |-> cycle[2 * k - 1]]

\* the cells of a cycle at even (0-based) positions, '+', and at odd positions, '-'
plus_cases(cycle) == [k \in 1..((Len(cycle) + 1) \div 2) |-> cycle[2 * k - 1]]
moins_cases(cycle) == [k \in 1..(Len(cycle) \div 2) |-> cycle[2 * k]]

\* the largest element of a sequence
RECURSIVE MaxSeq(_)
MaxSeq(s) == IF Len(s) = 1 THEN s[1] ELSE (IF Head(s) >= MaxSeq(Tail(s)) THEN Head(s) ELSE MaxSeq(Tail(s)))

RECURSIVE MinSeq(_)
MinSeq(s) == IF Len(s) = 1 THEN s[1] ELSE Min2(Head(s), MinSeq(Tail(s)))

\* delta added to the first '+' cell only
AddDelta_premiere_seule(a, cells, delta) ==
    IF cells = <<>> THEN a
    ELSE [a EXCEPT ![Head(cells)[1]][Head(cells)[2]] = @ + delta]

\* allocation[i][j] += delta for each '+' cell in turn
RECURSIVE AddDelta(_, _, _)
AddDelta(a, cells, delta) ==
    IF cells = <<>> THEN a
    ELSE AddDelta(SetCell(a, Head(cells), At(a, Head(cells)) + delta), Tail(cells), delta)

\* allocation[i][j] -= delta for each '-' cell in turn, set to 0 when abs(.) < 1e-9
RECURSIVE SubDelta(_, _, _)
SubDelta(a, cells, delta) ==
    IF cells = <<>> THEN a
    ELSE LET x == At(a, Head(cells)) - delta IN
         SubDelta(SetCell(a, Head(cells), IF Abs(x) < plafond THEN 0 ELSE x), Tail(cells), delta)

\* maximiser_sur_cycle computing delta without applying it to the cells
maximiser_sans_application(a, cycle) ==
    IF Len(cycle) < 4 THEN [alloc |-> a, delta |-> 0]
    ELSE LET delta == MinSeq([k \in 1..(Len(cycle) \div 2) |-> At(a, cycle[2 * k])])
         IN  [alloc |-> a, delta |-> IF delta <= seuil THEN 0 ELSE delta]

\* maximiser_sur_cycle: the allocation afterwards and the value returned
maximiser_sur_cycle(a, cycle) ==
    IF Len(cycle) < 4 THEN [alloc |-> a, delta |-> 0]
    ELSE LET moins == moins_cases(cycle)
             delta == MinSeq([k \in 1..Len(moins) |-> At(a, moins[k])])
         IN  IF delta <= seuil THEN [alloc |-> a, delta |-> 0]
             ELSE [alloc |-> SubDelta(AddDelta(a, plus_cases(cycle), delta), moins, delta),
                   delta |-> delta]

-----------------------------------------------------------------------------
(* connexite.py *)

\* nodes of the bipartite graph: <<"P", i>> for row i, <<"C", j>> for column j
PNode(i) == <<"P", i>>
CNode(j) == <<"C", j>>

\* first occurrences of a sequence, in order
RECURSIVE Dedup(_, _)
Dedup(s, seen) ==
    IF s = <<>> THEN <<>>
    ELSE IF Head(s) \in seen THEN Dedup(Tail(s), seen)
         ELSE <<Head(s)>> \o Dedup(Tail(s), seen \cup {Head(s)})

\* the keys of a graph built from the positive cells alone
graph_keys_sans_isoles(a) ==
    LET cells == cellules(a)
        ends == [k \in 1..(2 * Len(cells)) |->
                   IF k % 2 = 1 THEN PNode(cells[(k + 1) \div 2][1])
                   ELSE CNode(cells[k \div 2][2])]
    IN  Dedup(ends, {})

\* build_graph_from_transport: the keys of the graph in insertion order (the two
\* ends of each positive cell in row-major order, then every row, then every column)
graph_keys(a) ==
    LET cells == cellules(a)
        ends == [k \in 1..(2 * Len(cells)) |->
                   IF k % 2 = 1 THEN PNode(cells[(k + 1) \div 2][1])
                   ELSE CNode(cells[k \div 2][2])]
    IN  Dedup(ends \o [i \in 1..NRows(a) |-> PNode(i)] \o [j \in 1..NCols(a) |-> CNode(j)], {})

\* graph[node]
graph_adj(a, node) ==
    IF node[1] = "P" THEN {CNode(j) : j \in {j \in 1..NCols(a) : a[node[2]][j] > 0}}
    ELSE {PNode(i) : i \in {i \in 1..NRows(a) : a[i][node[2]] > 0}}

\* bfs_component: the nodes reachable from the nodes of S (as a set: the order of
\* the list the source returns is never read)
RECURSIVE bfs_component(_, _)
bfs_component(a, S) ==
    LET S2 == S \cup UNION {graph_adj(a, x) : x \in S} IN
    IF S2 = S THEN S ELSE bfs_component(a, S2)

\* connected_components: the components in the order of their first key
RECURSIVE CC_Loop(_, _, _)
CC_Loop(a, keys, visited) ==
    IF keys = <<>> THEN <<>>
    ELSE IF Head(keys) \in visited THEN CC_Loop(a, Tail(keys), visited)
         ELSE LET comp == bfs_component(a, {Head(keys)}) IN
              <<comp>> \o CC_Loop(a, Tail(keys), visited \cup comp)

connected_components(a) == CC_Loop(a, graph_keys(a), {})

\* is_connected_transport: <<est_connexe, composantes>>
is_connected_transport(a) ==
    LET comps == connected_components(a) IN <<Len(comps) = 1, comps>>

-----------------------------------------------------------------------------
(* marche_pied.py: rendre_connexe *)

\* all cells of an n x m matrix column by column
ColMajor(n, m) ==
    [k \in 1..(n * m) |-> <<((k - 1) % n) + 1, ((k - 1) \div n) + 1>>]

\* One scan of rendre_connexe over candidate cells in order, starting from the best
\* edge so far (<<>>: none, cost +inf).  A candidate cheaper than the best becomes
\* the best, and a candidate of cost <= 1.0 that does so ends the search.
RECURSIVE RC_Scan(_, _, _)
RC_Scan(c, cands, best) ==
    IF cands = <<>> THEN [arete |-> best, trouve_min |-> FALSE]
    ELSE IF best = <<>> \/ At(c, Head(cands)) < At(c, best)
         THEN IF At(c, Head(cands)) <= 1
              THEN [arete |-> Head(cands), trouve_min |-> TRUE]
              ELSE RC_Scan(c, Tail(cands), Head(cands))
         ELSE RC_Scan(c, Tail(cands), best)

\* meilleure_arete of one round of rendre_connexe for n < 1000, where
\* limite_recherche = m bounds the columns of option 1 and the rows of option 2
meilleure_arete(c, a, comp0) ==
    LET n == NRows(a)
        m == NCols(a)
        rows0 == {x[2] : x \in {y \in comp0 : y[1] = "P"}}
        cols0 == {x[2] : x \in {y \in comp0 : y[1] = "C"}}
        limite_recherche == m
        option1 == SelectSeq(RowMajor(n, m), LAMBDA e :
                       /\ e[1] \in rows0
                       /\ e[2] <= Min2(limite_recherche, m)
                       /\ e[2] \notin cols0
                       /\ At(a, e) = 0)
        option2 == SelectSeq(ColMajor(n, m), LAMBDA e :
                       /\ e[2] \in cols0
                       /\ e[1] <= Min2(limite_recherche, n)
                       /\ e[1] \notin rows0
                       /\ At(a, e) = 0)
        r1 == RC_Scan(c, option1, <<>>)
    IN  IF r1.trouve_min THEN r1.arete ELSE RC_Scan(c, option2, r1.arete).arete

\* the while loop of rendre_connexe
RECURSIVE RC_Loop(_, _, _, _)
RC_Loop(c, a, composantes, ajoutees) ==
    IF Len(composantes) <= 1 THEN [alloc |-> a, ajoutees |-> ajoutees]
    ELSE LET e == meilleure_arete(c, a, composantes[1]) IN
         IF e = <<>> THEN [alloc |-> a, ajoutees |-> ajoutees]
         ELSE LET a2 == SetCell(a, e, epsilon) IN
              RC_Loop(c, a2, connected_components(a2), Append(ajoutees, e))

\* rendre_connexe: the allocation afterwards and the list of cells set to epsilon
rendre_connexe(c, a) ==
    LET r == is_connected_transport(a) IN
    IF r[1] THEN [alloc |-> a, ajoutees |-> <<>>]
    ELSE RC_Loop(c, a, r[2], <<>>)

-----------------------------------------------------------------------------
(* potentiels.py *)

Indices(n) == [k \in 1..n |-> k]

\* no traversal: the potentials as they stand when the queue is first built
CP_SansParcours(c, a, pu, ku, pv, kv, queue) == <<pu, pv>>

\* The BFS of calculer_potentiels.  pu, pv: the potentials, 0 where not computed;
\* ku, kv: the rows and columns whose potential is computed (not None);
\* queue: <<"client", j>> and <<"fournisseur", i>> entries.
RECURSIVE CP_Loop(_, _, _, _, _, _, _)
CP_Loop(c, a, pu, ku, pv, kv, queue) ==
    IF queue = <<>> THEN <<pu, pv>>
    ELSE LET index == Head(queue)[2] IN
         IF Head(queue)[1] = "client"
         THEN LET new == SelectSeq(Indices(NRows(a)),
                                   LAMBDA i : a[i][index] > 0 /\ i \notin ku)
              IN  CP_Loop(c, a,
                          [i \in 1..NRows(a) |->
                              IF i \in Range(new) THEN c[i][index] - pv[index] ELSE pu[i]],
                          ku \cup Range(new), pv, kv,
                          Tail(queue) \o [k \in 1..Len(new) |-> <<"fournisseur", new[k]>>])
         ELSE LET new == SelectSeq(Indices(NCols(a)),
                                   LAMBDA j : a[index][j] > 0 /\ j \notin kv)
              IN  CP_Loop(c, a, pu, ku,
                          [j \in 1..NCols(a) |->
                              IF j \in Range(new) THEN c[index][j] - pu[index] ELSE pv[j]],
                          kv \cup Range(new),
                          Tail(queue) \o [k \in 1..Len(new) |-> <<"client", new[k]>>])

\* calculer_potentiels: <<u, v>>, with u[0] of the source (row 1 here) fixed to 0
calculer_potentiels(c, a) ==
    LET n == NRows(a)
        m == NCols(a)
        zu == [i \in 1..n |-> 0]
        zv == [j \in 1..m |-> 0]
    IN  IF cellules(a) = <<>> THEN <<zu, zv>>
        ELSE LET first == SelectSeq(Indices(m), LAMBDA j : a[1][j] > 0) IN
             CP_Loop(c, a, zu, {1},
                     [j \in 1..m |-> IF j \in Range(first) THEN c[1][j] - 0 ELSE 0],
                     Range(first),
                     [k \in 1..Len(first) |-> <<"client", first[k]>>])

\* c_ij - (u_i + v_j)
marginal(c, pu, pv, e) == At(c, e) - (pu[e[1]] + pv[e[2]])

\* calculer_couts_marginaux: the table of c_ij - (u_i + v_j)
calculer_couts_marginaux(c, pu, pv) ==
    [i \in 1..NRows(c) |-> [j \in 1..NCols(c) |-> c[i][j] - (pu[i] + pv[j])]]

\* the running minimum of detecter_arete_ameliorante, read from the table
RECURSIVE DAT_Best(_, _, _)
DAT_Best(marginals, cands, best) ==
    IF cands = <<>> THEN best
    ELSE LET mg == At(marginals, Head(cands)) IN
         IF (best = <<>> /\ mg <= -1) \/ (best # <<>> /\ mg < best[3])
         THEN DAT_Best(marginals, Tail(cands), <<Head(cands)[1], Head(cands)[2], mg>>)
         ELSE DAT_Best(marginals, Tail(cands), best)

\* detecter_arete_ameliorante: <<>> (None) or <<i, j, marginal>>
detecter_arete_ameliorante(marginals, a, strategy) ==
    LET cands == SelectSeq(RowMajor(NRows(marginals), NCols(marginals)),
                           LAMBDA e : At(a, e) = 0) IN
    IF strategy = "first"
    THEN LET neg == SelectSeq(cands, LAMBDA e : At(marginals, e) <= -1) IN
         IF neg = <<>> THEN <<>>
         ELSE <<Head(neg)[1], Head(neg)[2], At(marginals, Head(neg))>>
    ELSE DAT_Best(marginals, cands, <<>>)

\* a running minimum that is also replaced by an equal marginal cost
RECURSIVE DA_Dernier(_, _, _, _, _)
DA_Dernier(c, pu, pv, cands, best) ==
    IF cands = <<>> THEN best
    ELSE LET mg == c[Head(cands)[1]][Head(cands)[2]] - (pu[Head(cands)[1]] + pv[Head(cands)[2]]) IN
         IF (best = <<>> /\ mg <= -1) \/ (best # <<>> /\ mg <= best[3])
         THEN DA_Dernier(c, pu, pv, Tail(cands), <<Head(cands)[1], Head(cands)[2], mg>>)
         ELSE DA_Dernier(c, pu, pv, Tail(cands), best)

\* strategy "best": the running minimum, which starts at -1e-9 and is replaced
\* by a strictly smaller marginal cost only
RECURSIVE DA_Best(_, _, _, _, _)
DA_Best(c, pu, pv, cands, best) ==
    IF cands = <<>> THEN best
    ELSE LET mg == marginal(c, pu, pv, Head(cands)) IN
         IF (best = <<>> /\ mg <= -1) \/ (best # <<>> /\ mg < best[3])
         THEN DA_Best(c, pu, pv, Tail(cands), <<Head(cands)[1], Head(cands)[2], mg>>)
         ELSE DA_Best(c, pu, pv, Tail(cands), best)

\* detecter_arete_ameliorante_rapide with indices_i cut to the first row
detecter_premiere_ligne(c, pu, pv, a, strategy) ==
    DA_Best(c, pu, pv,
            SelectSeq(RowMajor(1, NCols(c)), LAMBDA e : At(a, e) = 0), <<>>)

\* detecter_arete_ameliorante_rapide for n < 1000: <<>> (None) or <<i, j, marginal>>
detecter_arete_ameliorante_rapide(c, pu, pv, a, strategy) ==
    LET cands == SelectSeq(RowMajor(NRows(c), NCols(c)), LAMBDA e : At(a, e) = 0) IN
    IF strategy = "first"
    THEN LET neg == SelectSeq(cands, LAMBDA e : marginal(c, pu, pv, e) <= -1) IN
         IF neg = <<>> THEN <<>>
         ELSE <<Head(neg)[1], Head(neg)[2], marginal(c, pu, pv, Head(neg))>>
    ELSE DA_Best(c, pu, pv, cands, <<>>)

-----------------------------------------------------------------------------
(* marche_pied.py: trouver_cycle_avec_arete *)

\* adj[node] built without leaving out the added cell
TC_adj_avec_ajout(a, node, ajout) ==
    LET mine == IF node[1] = "r"
                THEN SelectSeq(cellules(a), LAMBDA e : e[1] = node[2])
                ELSE SelectSeq(cellules(a), LAMBDA e : e[2] = node[2])
    IN  [k \in 1..Len(mine) |->
            <<IF node[1] = "r" THEN <<"c", mine[k][2]>> ELSE <<"r", mine[k][1]>>, mine[k]>>]

\* adj[node] for n < 1000: <<neighbour, cell>> pairs over the positive cells other
\* than the added one, in insertion (row-major) order
TC_adj(a, node, ajout) ==
    LET cells == SelectSeq(cellules(a), LAMBDA e : e # ajout)
        mine == IF node[1] = "r"
                THEN SelectSeq(cells, LAMBDA e : e[1] = node[2])
                ELSE SelectSeq(cells, LAMBDA e : e[2] = node[2])
    IN  [k \in 1..Len(mine) |->
            <<IF node[1] = "r" THEN <<"c", mine[k][2]>> ELSE <<"r", mine[k][1]>>, mine[k]>>]

\* the cells of the path from start to node, read off the parent pointers
RECURSIVE TC_Path(_, _, _)
TC_Path(parent, start, node) ==
    IF node = start THEN <<>>
    ELSE Append(TC_Path(parent, start, parent[node][1]), parent[node][2])

\* the BFS from the row node of the added cell to its column node
RECURSIVE TC_Loop(_, _, _, _, _, _)
TC_Loop(a, ajout, start, queue, visited, parent) ==
    IF queue = <<>> THEN <<ajout>>
    ELSE LET node == Head(queue) IN
         IF node = <<"c", ajout[2]>>
         THEN LET cycle == <<ajout>> \o TC_Path(parent, start, node) IN
              IF Len(cycle) < 4 THEN <<ajout>> ELSE cycle
         ELSE LET new == SelectSeq(TC_adj(a, node, ajout), LAMBDA p : p[1] \notin visited) IN
              TC_Loop(a, ajout, start,
                      Tail(queue) \o [k \in 1..Len(new) |-> new[k][1]],
                      visited \cup {new[k][1] : k \in 1..Len(new)},
                      [x \in DOMAIN parent \cup {new[k][1] : k \in 1..Len(new)} |->
                          IF x \in DOMAIN parent THEN parent[x]
                          ELSE <<node, new[CHOOSE k \in 1..Len(new) : new[k][1] = x][2]>>])

\* trouver_cycle_avec_arete(allocation, i_ajout, j_ajout), ajout = <<i_ajout, j_ajout>>
trouver_cycle_avec_arete(a, ajout) ==
    TC_Loop(a, ajout, <<"r", ajout[1]>>, << <<"r", ajout[1]>> >>, {<<"r", ajout[1]>>},
            (<<"r", ajout[1]>> :> <<>>))

-----------------------------------------------------------------------------
(* transport_problem.py: northwest_corner_method *)

\* a pass that ships the amount without taking it off the remaining demand
NW_StepSansReport(st) ==
    LET allocation_amount == Min2(st.rs[st.i], st.rd[st.j])
        rs2 == [st.rs EXCEPT ![st.i] = @ - allocation_amount]
    IN  [alloc |-> SetCell(st.alloc, <<st.i, st.j>>, allocation_amount),
         rs |-> rs2,
         rd |-> st.rd,
         i |-> IF rs2[st.i] <= 0 THEN st.i + 1 ELSE st.i,
         j |-> IF rs2[st.i] > 0 /\ st.rd[st.j] <= 0 THEN st.j + 1 ELSE st.j]

\* a pass that tests the exhausted demand first, so that a tie moves the column index
NW_StepColonneDAbord(st) ==
    LET allocation_amount == Min2(st.rs[st.i], st.rd[st.j])
        rs2 == [st.rs EXCEPT ![st.i] = @ - allocation_amount]
        rd2 == [st.rd EXCEPT ![st.j] = @ - allocation_amount]
    IN  [alloc |-> SetCell(st.alloc, <<st.i, st.j>>, allocation_amount),
         rs |-> rs2,
         rd |-> rd2,
         i |-> IF rd2[st.j] > 0 /\ rs2[st.i] <= 0 THEN st.i + 1 ELSE st.i,
         j |-> IF rd2[st.j] <= 0 THEN st.j + 1 ELSE st.j]

\* one pass of the while loop body on the state [alloc, rs, rd, i, j]
NW_Step(st) ==
    LET allocation_amount == Min2(st.rs[st.i], st.rd[st.j])
        rs2 == [st.rs EXCEPT ![st.i] = @ - allocation_amount]
        rd2 == [st.rd EXCEPT ![st.j] = @ - allocation_amount]
    IN  [alloc |-> SetCell(st.alloc, <<st.i, st.j>>, allocation_amount),
         rs |-> rs2,
         rd |-> rd2,
         i |-> IF rs2[st.i] <= 0 THEN st.i + 1 ELSE st.i,
         j |-> IF rs2[st.i] > 0 /\ rd2[st.j] <= 0 THEN st.j + 1 ELSE st.j]

RECURSIVE NW_Loop(_)
NW_Loop(st) ==
    IF st.i <= Len(st.rs) /\ st.j <= Len(st.rd) THEN NW_Loop(NW_Step(st)) ELSE st

NW_Init(s, d) ==
    [alloc |-> [i \in 1..Len(s) |-> [j \in 1..Len(d) |-> 0]],
     rs |-> s, rd |-> d, i |-> 1, j |-> 1]

northwest_corner_method(s, d) == NW_Loop(NW_Init(s, d)).alloc

-----------------------------------------------------------------------------
(* transport_problem.py: balas_hammer_method *)

\* sorted(range(len), key): the indices 1..len by key, ties by index (stable sort)
RECURSIVE SortedIdx(_, _)
SortedIdx(key, left) ==
    IF left = {} THEN <<>>
    ELSE LET x == CHOOSE x \in left :
                    \A y \in left : key[x] < key[y] \/ (key[x] = key[y] /\ x <= y)
         IN  <<x>> \o SortedIdx(key, left \ {x})

\* the smallest k >= from with act[order[k]], or 0 when there is none
RECURSIVE NextActive(_, _, _)
NextActive(order, act, from) ==
    IF from > Len(order) THEN 0
    ELSE IF act[order[from]] THEN from ELSE NextActive(order, act, from + 1)

\* State of balas_hammer_method: alloc, rs, rd (remaining supplies and demands),
\* active_rows, active_cols, sorted_rows, sorted_cols, ptr_rows, ptr_cols (1-based),
\* rcache, ccache (<<>> for None, <<p>> for a cached penalty p).

\* get_row_penalty(i): the state after the call
get_row_penalty(c, st, i) ==
    IF st.rcache[i] # <<>> THEN st
    ELSE LET k == NextActive(st.sorted_rows[i], st.active_cols, st.ptr_rows[i]) IN
         IF k = 0 THEN [st EXCEPT !.rcache[i] = <<0>>]
         ELSE LET k2 == NextActive(st.sorted_rows[i], st.active_cols, k + 1)
                  penalty == IF k2 = 0 THEN 0
                             ELSE c[i][st.sorted_rows[i][k2]] - c[i][st.sorted_rows[i][k]]
              IN  [st EXCEPT !.ptr_rows[i] = k, !.rcache[i] = <<penalty>>]

\* get_col_penalty(j): the state after the call
get_col_penalty(c, st, j) ==
    IF st.ccache[j] # <<>> THEN st
    ELSE LET k == NextActive(st.sorted_cols[j], st.active_rows, st.ptr_cols[j]) IN
         IF k = 0 THEN [st EXCEPT !.ccache[j] = <<0>>]
         ELSE LET k2 == NextActive(st.sorted_cols[j], st.active_rows, k + 1)
                  penalty == IF k2 = 0 THEN 0
                             ELSE c[st.sorted_cols[j][k2]][j] - c[st.sorted_cols[j][k]][j]
              IN  [st EXCEPT !.ptr_cols[j] = k, !.ccache[j] = <<penalty>>]

\* get_row_penalty for every active row from row i on, then get_col_penalty likewise
RECURSIVE BH_RowPenalties(_, _, _)
BH_RowPenalties(c, st, i) ==
    IF i > Len(st.rs) THEN st
    ELSE BH_RowPenalties(c, IF st.active_rows[i] THEN get_row_penalty(c, st, i) ELSE st, i + 1)

RECURSIVE BH_ColPenalties(_, _, _)
BH_ColPenalties(c, st, j) ==
    IF j > Len(st.rd) THEN st
    ELSE BH_ColPenalties(c, IF st.active_cols[j] THEN get_col_penalty(c, st, j) ELSE st, j + 1)

BH_Init(c, s, d) ==
    LET n == Len(s)
        m == Len(d)
        st0 == [alloc |-> [i \in 1..n |-> [j \in 1..m |-> 0]],
                rs |-> s, rd |-> d,
                active_rows |-> [i \in 1..n |-> TRUE],
                active_cols |-> [j \in 1..m |-> TRUE],
                sorted_rows |-> [i \in 1..n |-> SortedIdx(c[i], 1..m)],
                sorted_cols |-> [j \in 1..m |-> SortedIdx([i \in 1..n |-> c[i][j]], 1..n)],
                ptr_rows |-> [i \in 1..n |-> 1],
                ptr_cols |-> [j \in 1..m |-> 1],
                rcache |-> [i \in 1..n |-> <<>>],
                ccache |-> [j \in 1..m |-> <<>>]]
    IN  BH_ColPenalties(c, BH_RowPenalties(c, st0, 1), 1)

BH_Active(st) ==
    /\ \E i \in 1..Len(st.rs) : st.active_rows[i]
    /\ \E j \in 1..Len(st.rd) : st.active_cols[j]

\* The target of a step, read off the penalty caches of state s1: the first active
\* row of largest penalty, replaced by the first active column of largest penalty
\* only when that one is strictly larger; then the cheapest active counterpart,
\* found through the pointer.  Gives the cell <<r, cc>> and the state.
BH_Choose(s1) ==
    LET arows == {i \in 1..Len(s1.rs) : s1.active_rows[i]}
        acols == {j \in 1..Len(s1.rd) : s1.active_cols[j]}
        brow == CHOOSE i \in arows :
                    \A x \in arows : \/ s1.rcache[x][1] < s1.rcache[i][1]
                                     \/ (s1.rcache[x][1] = s1.rcache[i][1] /\ i <= x)
        better == {j \in acols : s1.ccache[j][1] > s1.rcache[brow][1]}
    IN  IF better = {}
        THEN LET kr == IF s1.active_cols[s1.sorted_rows[brow][s1.ptr_rows[brow]]]
                       THEN s1.ptr_rows[brow]
                       ELSE NextActive(s1.sorted_rows[brow], s1.active_cols, s1.ptr_rows[brow])
             IN  [r |-> brow, cc |-> s1.sorted_rows[brow][kr],
                  st |-> [s1 EXCEPT !.ptr_rows[brow] = kr]]
        ELSE LET bcol == CHOOSE j \in better :
                            \A x \in better : \/ s1.ccache[x][1] < s1.ccache[j][1]
                                              \/ (s1.ccache[x][1] = s1.ccache[j][1] /\ j <= x)
                 kc == IF s1.active_rows[s1.sorted_cols[bcol][s1.ptr_cols[bcol]]]
                       THEN s1.ptr_cols[bcol]
                       ELSE NextActive(s1.sorted_cols[bcol], s1.active_rows, s1.ptr_cols[bcol])
             IN  [r |-> s1.sorted_cols[bcol][kc], cc |-> bcol,
                  st |-> [s1 EXCEPT !.ptr_cols[bcol] = kc]]

\* allocation[r][c] = qty = min(remaining supply, remaining demand)
BH_Allocate(st, r, cc) ==
    [st EXCEPT !.alloc[r][cc] = Min2(st.rs[r], st.rd[cc]),
               !.rs[r] = @ - Min2(st.rs[r], st.rd[cc]),
               !.rd[cc] = @ - Min2(st.rs[r], st.rd[cc])]

\* an exhausted row becomes inactive; its cache and those of the active columns are dropped
BH_CloseRow(st, r) ==
    IF st.rs[r] <= 0
    THEN [st EXCEPT !.active_rows[r] = FALSE,
                    !.rcache[r] = <<>>,
                    !.ccache = [j \in 1..Len(st.rd) |-> IF st.active_cols[j] THEN <<>> ELSE @[j]]]
    ELSE st

\* an exhausted column becomes inactive; its cache and those of the active rows are dropped
BH_CloseCol(st, cc) ==
    IF st.rd[cc] <= 0
    THEN [st EXCEPT !.active_cols[cc] = FALSE,
                    !.ccache[cc] = <<>>,
                    !.rcache = [i \in 1..Len(st.rs) |-> IF st.active_rows[i] THEN <<>> ELSE @[i]]]
    ELSE st

BH_Finish(ch) == BH_CloseCol(BH_CloseRow(BH_Allocate(ch.st, ch.r, ch.cc), ch.r), ch.cc)

\* one pass of the main loop body
BH_Step(c, st) == BH_Finish(BH_Choose(BH_ColPenalties(c, BH_RowPenalties(c, st, 1), 1)))

RECURSIVE BH_Loop(_, _)
BH_Loop(c, st) == IF BH_Active(st) THEN BH_Loop(c, BH_Step(c, st)) ELSE st

\* The greedy completion: each row that has supply left when it is reached gives
\* min(supply left, demand left) to each column with demand left.  with_break: the
\* variant of the sorting-timeout fallback, which leaves a row once it is exhausted.
RECURSIVE BH_SweepRow(_, _, _, _)
BH_SweepRow(st, i, j, with_break) ==
    IF j > Len(st.rd) THEN st
    ELSE IF st.rd[j] > 0
         THEN LET qty == Min2(st.rs[i], st.rd[j])
                  s2 == [st EXCEPT !.alloc[i][j] = @ + qty, !.rs[i] = @ - qty, !.rd[j] = @ - qty]
              IN  IF with_break /\ s2.rs[i] <= 0 THEN s2
                  ELSE BH_SweepRow(s2, i, j + 1, with_break)
         ELSE BH_SweepRow(st, i, j + 1, with_break)

RECURSIVE BH_SweepRows(_, _, _)
BH_SweepRows(st, i, with_break) ==
    IF i > Len(st.rs) THEN st
    ELSE BH_SweepRows(IF st.rs[i] > 0 THEN BH_SweepRow(st, i, 1, with_break) ELSE st,
                      i + 1, with_break)

\* no completion: the state the main loop was left in
BH_SansCompletion(st) == st

\* the final completion, run when supply and demand are both left
BH_Complete(st) ==
    IF (\E i \in 1..Len(st.rs) : st.rs[i] > 0) /\ (\E j \in 1..Len(st.rd) : st.rd[j] > 0)
    THEN BH_SweepRows(st, 1, FALSE)
    ELSE st

\* balas_hammer_method without a deadline (max_duration = None)
balas_hammer_method(c, s, d) == BH_Complete(BH_Loop(c, BH_Init(c, s, d))).alloc

-----------------------------------------------------------------------------
(* The solver: methode_marche_pied (variant "mp"),
   resoudre_marche_pied_silencieux (variant "silent") and the optimisation
   loop of resoudre_un_probleme in main.py (variant "main") *)

Matrices(n, m, S) == [1..n -> [1..m -> S]]

\* supplies and demands of a generating matrix, as in generer_probleme_aleatoire:
\* row sums and column sums, so that every instance is balanced
Scaled(t) == [i \in 1..NRows(t) |-> [j \in 1..NCols(t) |-> t[i][j] * ONE]]
SuppliesOf(a) == [i \in 1..NRows(a) |-> RowSum(a, i)]
DemandsOf(a) == [j \in 1..NCols(a) |-> ColSum(a, j)]

\* "first" for n >= 500, else "best"
strategie(c) == IF NRows(c) >= 500 THEN "first" ELSE "best"

\* Steps 4 and 5.  The two solvers call detecter_arete_ameliorante_rapide with
\* strategie(c); main.py builds the table of marginal costs and calls
\* detecter_arete_ameliorante without a strategy, which is its default "first".
arete_ameliorante(c, pu, pv, a) ==
    IF variant = "main"
    THEN detecter_arete_ameliorante(calculer_couts_marginaux(c, pu, pv), a, "first")
    ELSE detecter_arete_ameliorante_rapide(c, pu, pv, a, strategie(c))

\* the fields every specification leaves unused start (and stay) empty
NoFn == fn_in = <<>> /\ fn_out = <<>>

\* a solver run starts: allocation = copy of allocation_initiale, nb_iterations = 0
StartRun(a, kind) ==
    /\ allocation' = a
    /\ init_kind' = kind
    /\ pc' = "loop"
    /\ nb_iterations' = 0
    /\ cycles_elimines' = 0
    /\ aretes_ajoutees' = <<>>
    /\ u' = <<>>
    /\ v' = <<>>
    /\ arete' = <<>>
    /\ expired' = FALSE
    /\ exit_reason' = ""
    /\ entrantes' = <<>>

\* the shapes <<n, m>> of the instances
Shapes == {s \in (2..N) \X (2..M) : s[1] * s[2] <= MaxCells}

Init ==
    \E sh \in Shapes :
    \E n \in {sh[1]}, m \in {sh[2]} :
    \E c \in Matrices(n, m, 1..MaxCost), t \in Matrices(n, m, 1..MaxQty) :
    \E kind \in {"NW", "any"} :
        /\ costs = c
        /\ supplies = SuppliesOf(Scaled(t))
        /\ demands = DemandsOf(Scaled(t))
        /\ variant \in {"mp", "silent"}
        /\ init_kind = kind
        /\ allocation = IF kind = "NW"
                        THEN northwest_corner_method(SuppliesOf(Scaled(t)), DemandsOf(Scaled(t)))
                        ELSE Scaled(t)
        /\ pc = "loop"
        /\ nb_iterations = 0
        /\ cycles_elimines = 0
        /\ aretes_ajoutees = <<>>
        /\ u = <<>>
        /\ v = <<>>
        /\ arete = <<>>
        /\ expired = FALSE
        /\ exit_reason = ""
        /\ nw_result = <<>>
        /\ first_result = <<>>
        /\ NoFn
        /\ unite = "1e-6"
        /\ entrantes = <<>>

\* the loop is left
Leave(reason) ==
    /\ pc' = "done"
    /\ exit_reason' = reason

\* Top of the main loop: the test nb_iterations < max_iterations, the increment,
\* and for the silent solver the deadline checks that open the body.  A check
\* reads the clock: it may find the budget exceeded, and does once it was.
Iterate ==
    /\ pc = "loop"
    /\ IF nb_iterations >= max_iterations
       THEN /\ Leave("cap")
            /\ UNCHANGED <<nb_iterations, cycles_elimines, expired>>
       ELSE /\ nb_iterations' = nb_iterations + 1
            /\ \E now \in IF variant = "silent" THEN (IF expired THEN {TRUE} ELSE BOOLEAN)
                          ELSE {FALSE} :
                 /\ expired' = now
                 /\ IF now
                    THEN Leave("deadline") /\ UNCHANGED cycles_elimines
                    ELSE pc' = "acyclic" /\ cycles_elimines' = 0 /\ UNCHANGED exit_reason
    /\ aretes_ajoutees' = <<>>
    /\ arete' = <<>>
    /\ UNCHANGED <<unite, entrantes, costs, supplies, demands, allocation, variant, init_kind, u, v,
                   nw_result, first_result, fn_in, fn_out>>

\* where the solver goes when a cycle-elimination loop is left with k cycles counted
AfterCycles(k) ==
    IF variant = "silent" /\ k >= max_cycles_elimination
    THEN Leave("cycle_cap")
    ELSE /\ pc' = IF pc = "acyclic" THEN "connect" ELSE "potentials"
         /\ UNCHANGED exit_reason

\* One round of a cycle-elimination loop (step 1, and for the silent solver and
\* main.py the loop after connectivity repair): the loop test, the deadline check of the silent
\* solver, tester_acyclique, and for a cycle maximiser_sur_cycle and the forced zero.
CycleRound ==
    /\ pc \in {"acyclic", "acyclic2"}
    /\ \E now \in IF variant = "silent" /\ cycles_elimines < max_cycles_elimination
                  THEN (IF expired THEN {TRUE} ELSE BOOLEAN) ELSE {FALSE} :
         LET r == tester_acyclique(allocation)
             mx == maximiser_sur_cycle(allocation, r[2])
         IN  /\ expired' = (expired \/ now)
             /\ IF variant = "silent" /\ cycles_elimines >= max_cycles_elimination
                THEN AfterCycles(cycles_elimines) /\ UNCHANGED <<allocation, cycles_elimines>>
                ELSE IF now \/ r[1]
                THEN AfterCycles(cycles_elimines) /\ UNCHANGED <<allocation, cycles_elimines>>
                ELSE /\ cycles_elimines' = cycles_elimines + 1
                     /\ IF mx.delta <= seuil
                        THEN /\ allocation' = SetCell(mx.alloc, r[2][1], 0)
                             /\ IF variant = "silent"
                                THEN AfterCycles(cycles_elimines + 1)
                                ELSE UNCHANGED <<pc, exit_reason>>
                        ELSE /\ allocation' = mx.alloc
                             /\ UNCHANGED <<pc, exit_reason>>
    /\ UNCHANGED <<unite, entrantes, costs, supplies, demands, variant, init_kind, nb_iterations,
                   aretes_ajoutees, u, v, arete, nw_result, first_result, fn_in, fn_out>>

\* Step 2: is_connected_transport and, when not connected, rendre_connexe; the
\* silent solver and main.py then run a second cycle-elimination loop.
Connect ==
    /\ pc = "connect"
    /\ LET est_connexe == is_connected_transport(allocation)[1]
           rc == rendre_connexe(costs, allocation)
       IN  IF est_connexe
           THEN /\ pc' = "potentials"
                /\ UNCHANGED <<allocation, aretes_ajoutees, cycles_elimines>>
           ELSE /\ allocation' = rc.alloc
                /\ aretes_ajoutees' = rc.ajoutees
                /\ pc' = IF variant \in {"silent", "main"} THEN "acyclic2" ELSE "potentials"
                /\ cycles_elimines' = 0
    /\ UNCHANGED <<unite, entrantes, costs, supplies, demands, variant, init_kind, nb_iterations,
                   u, v, arete, expired, exit_reason, nw_result, first_result,
                   fn_in, fn_out>>

\* Steps 3 to 5 when no entering cell exists: the loop is left, "optimal"
Optimal ==
    /\ pc = "potentials"
    /\ LET p == calculer_potentiels(costs, allocation) IN
         /\ arete_ameliorante(costs, p[1], p[2], allocation) = <<>>
         /\ u' = p[1]
         /\ v' = p[2]
    /\ Leave("optimal")
    /\ UNCHANGED <<unite, entrantes, costs, supplies, demands, allocation, variant, init_kind,
                   nb_iterations, cycles_elimines, aretes_ajoutees, arete, expired,
                   nw_result, first_result, fn_in, fn_out>>

\* the end of step 7: the degenerate case delta <= 1e-9
AfterPivot(mx, ajoutees, e) ==
    IF mx.delta <= seuil
    THEN SetCell([i \in 1..NRows(mx.alloc) |-> [j \in 1..NCols(mx.alloc) |->
                     IF <<i, j>> \in Range(ajoutees) THEN 0 ELSE mx.alloc[i][j]]],
                 e, epsilon)
    ELSE mx.alloc

\* Steps 3 to 7 with an entering cell: it is set to the placeholder 1.0, the cycle
\* it closes is searched, and maximiser_sur_cycle is applied to that cycle.
Pivot ==
    /\ pc = "potentials"
    /\ LET p == calculer_potentiels(costs, allocation)
           found == arete_ameliorante(costs, p[1], p[2], allocation)
       IN  /\ found # <<>>
           /\ LET e == <<found[1], found[2]>>
                  a1 == SetCell(allocation, e, ONE)
                  cycle == trouver_cycle_avec_arete(a1, e)
                  mx == maximiser_sur_cycle(a1, cycle)
              IN  /\ allocation' = AfterPivot(mx, aretes_ajoutees, e)
                  /\ arete' = e
                  /\ entrantes' = Append(entrantes, e)
           /\ u' = p[1]
           /\ v' = p[2]
    /\ pc' = "loop"
    /\ UNCHANGED <<unite, costs, supplies, demands, variant, init_kind, nb_iterations,
                   cycles_elimines, aretes_ajoutees, expired, exit_reason,
                   nw_result, first_result, fn_in, fn_out>>

\* The caller of complexite.py / main.py solves the same instance from the
\* Balas-Hammer allocation once the Northwest-Corner run has returned.
StartBH ==
    /\ pc = "done"
    /\ init_kind = "NW"
    /\ first_result = <<>>
    /\ nw_result' = [alloc |-> allocation, reason |-> exit_reason,
                     cout |-> compute_total_cost(costs, allocation)]
    /\ StartRun(balas_hammer_method(costs, supplies, demands), "BH")
    /\ UNCHANGED <<unite, costs, supplies, demands, variant, first_result, fn_in, fn_out>>

\* solve is called again on the allocation an Optimal run returned
Rerun ==
    /\ pc = "done"
    /\ exit_reason = "optimal"
    /\ first_result = <<>>
    /\ first_result' = allocation
    /\ StartRun(allocation, init_kind)
    /\ UNCHANGED <<unite, costs, supplies, demands, variant, nw_result, fn_in, fn_out>>

Next == Iterate \/ CycleRound \/ Connect \/ Optimal \/ Pivot \/ StartBH \/ Rerun

Spec == Init /\ [][Next]_vars

-----------------------------------------------------------------------------
(* Properties of the solver *)

\* the cells of the instance
Cells == {e \in (1..NRows(costs)) \X (1..NCols(costs)) : TRUE}

\* a run started from the Northwest-Corner or the Balas-Hammer (Vogel) allocation
\* has returned
Returned == pc = "done" /\ init_kind \in {"NW", "BH"} /\ first_result = <<>>

\* C1: when a run started from the Northwest-Corner or the Vogel allocation of a
\* balanced instance returns, every row sum of the returned allocation equals the
\* supply of the row and every column sum the demand of the column, within 1e-6
\* (one unit).
C1_SommesConservees ==
    Returned =>
        /\ \A i \in 1..NRows(costs) : Abs(RowSum(allocation, i) - supplies[i]) <= 1
        /\ \A j \in 1..NCols(costs) : Abs(ColSum(allocation, j) - demands[j]) <= 1

\* C2: when the loop was left because no entering cell was found, every cell whose
\* allocation is 0 has a marginal cost c_ij - (u_i + v_j) >= -1e-6 for the
\* potentials of that last iteration (marginal costs are integers: >= 0).
C2_MarginauxPositifs ==
    (pc = "done" /\ exit_reason = "optimal") =>
        \A e \in Cells : At(allocation, e) = 0 => marginal(costs, u, v, e) >= 0

\* the Optimal exit was taken after a pivot, with empty cells left to examine
C2_Witness ==
    /\ pc = "done"
    /\ exit_reason = "optimal"
    /\ nb_iterations >= 2
    /\ arete = <<>>
    /\ \E e \in Cells : At(allocation, e) = 0 /\ marginal(costs, u, v, e) > 0

\* position of a step inside one pass of the main loop, counted down to its end
Etape ==
    CASE pc = "acyclic" -> 5
      [] pc = "connect" -> 4
      [] pc = "acyclic2" -> 3
      [] pc = "potentials" -> 2
      [] pc = "loop" -> 1
      [] OTHER -> 0

\* what is left of a run: the iterations the cap still allows, then the steps left
\* in the pass, then the positive cells a cycle-elimination loop can still remove
Rang ==
    ((max_iterations - nb_iterations) * 6 + Etape) * (NRows(costs) * NCols(costs) + 1)
        + Len(cellules(allocation))

C4_MemeCoutOptimal ==
    (Returned /\ init_kind = "BH" /\ ~expired /\ nw_result.reason # "deadline") =>
        /\ nw_result.reason = "optimal"
        /\ exit_reason = "optimal"
        /\ Abs(nw_result.cout - compute_total_cost(costs, allocation)) <= 1

\* C5: the values a run returns are the allocation and the iteration count; the
\* terminal state they carry is the one read by the solver itself after its loop,
\* nb_iterations >= max_iterations, and it tells an Optimal exit from the others:
\* the loop was left on the cap, the cycle cap or the deadline exactly when it holds.
C5_EtatTerminal ==
    pc = "done" => ((nb_iterations >= max_iterations) <=> (exit_reason # "optimal"))

\* C6: a run started on the allocation A that an Optimal run returned leaves the
\* loop in its first iteration by the Optimal exit and returns A unchanged (the
\* wall-clock budget of the second run not being exhausted).
C6_Idempotent ==
    (pc = "done" /\ first_result # <<>> /\ ~expired) =>
        /\ exit_reason = "optimal"
        /\ nb_iterations = 1
        /\ allocation = first_result

-----------------------------------------------------------------------------
(* Function specifications: one call of a function of cyclique.py or of
   marche_pied.py on an input drawn from a bounded set.  pc is "call" before
   the call and "return" after it; fn_in keeps the input, fn_out the value
   returned, and allocation is the matrix the function works on in place. *)

\* the solver's own fields are left at rest
AuRepos ==
    /\ supplies = <<>>
    /\ demands = <<>>
    /\ variant = ""
    /\ init_kind = ""
    /\ nb_iterations = 0
    /\ cycles_elimines = 0
    /\ u = <<>>
    /\ v = <<>>
    /\ arete = <<>>
    /\ expired = FALSE
    /\ exit_reason = ""
    /\ nw_result = <<>>
    /\ first_result = <<>>

\* shapes of the matrices given to tester_acyclique
FnShapes == (2..N) \X (2..M)

\* the positive cells of a matrix, as a set
Positives(a) == Range(cellules(a))

\* tester_acyclique on every pattern of positive cells
InitCycle ==
    \E sh \in FnShapes :
    \E a \in Matrices(sh[1], sh[2], {0, ONE}) :
        /\ allocation = a
        /\ fn_in = a
        /\ fn_out = <<>>
        /\ costs = <<>>
        /\ aretes_ajoutees = <<>>
        /\ pc = "call"
        /\ AuRepos
        /\ unite = "1e-6"
        /\ entrantes = <<>>

CallTesterAcyclique ==
    /\ pc = "call"
    /\ fn_out' = tester_acyclique(allocation)
    /\ pc' = "return"
    /\ UNCHANGED <<unite, entrantes, costs, supplies, demands, allocation, variant, init_kind,
                   nb_iterations, cycles_elimines, aretes_ajoutees, u, v, arete,
                   expired, exit_reason, nw_result, first_result, fn_in>>

SpecCycle == InitCycle /\ [][CallTesterAcyclique]_vars

\* rendre_connexe on every allocation whose graph is not connected, for every
\* cost matrix with entries 0..MaxCost (costs below, at and above 1.0)
InitConnexe ==
    \E sh \in Shapes :
    \E c \in Matrices(sh[1], sh[2], 0..MaxCost), a \in Matrices(sh[1], sh[2], {0, ONE}) :
        /\ ~is_connected_transport(a)[1]
        /\ costs = c
        /\ allocation = a
        /\ fn_in = a
        /\ fn_out = <<>>
        /\ aretes_ajoutees = <<>>
        /\ pc = "call"
        /\ AuRepos
        /\ unite = "1e-6"
        /\ entrantes = <<>>

CallRendreConnexe ==
    /\ pc = "call"
    /\ LET rc == rendre_connexe(costs, allocation) IN
         /\ allocation' = rc.alloc
         /\ aretes_ajoutees' = rc.ajoutees
         /\ fn_out' = rc.ajoutees
    /\ pc' = "return"
    /\ UNCHANGED <<unite, entrantes, costs, supplies, demands, variant, init_kind, nb_iterations,
                   cycles_elimines, u, v, arete, expired, exit_reason, nw_result,
                   first_result, fn_in>>

SpecConnexe == InitConnexe /\ [][CallRendreConnexe]_vars

\* longest cycle given to maximiser_sur_cycle
MaxCycleLen == 4

\* the sequences of at most len distinct elements of S
SeqsDistinct(S, len) ==
    {s \in UNION {[1..k -> S] : k \in 0..len} :
        \A x, y \in 1..Len(s) : x # y => s[x] # s[y]}

\* maximiser_sur_cycle on two-row matrices of quantities 0, 1.0 and 2.0 and on every
\* sequence of distinct cells, shorter ones than a cycle included
InitMax ==
    \E sh \in {s \in Shapes : s[1] = 2} :
    \E a \in Matrices(sh[1], sh[2], {0, ONE, 2 * ONE}) :
    \E cycle \in SeqsDistinct((1..sh[1]) \X (1..sh[2]), MaxCycleLen) :
        /\ allocation = a
        /\ fn_in = [a |-> a, cycle |-> cycle]
        /\ fn_out = <<>>
        /\ costs = <<>>
        /\ aretes_ajoutees = <<>>
        /\ pc = "call"
        /\ AuRepos
        /\ unite = "1e-6"
        /\ entrantes = <<>>

CallMaximiser ==
    /\ pc = "call"
    /\ LET mx == maximiser_sur_cycle(allocation, fn_in.cycle) IN
         /\ allocation' = mx.alloc
         /\ fn_out' = mx.delta
    /\ pc' = "return"
    /\ UNCHANGED <<unite, entrantes, costs, supplies, demands, variant, init_kind, nb_iterations,
                   cycles_elimines, aretes_ajoutees, u, v, arete, expired,
                   exit_reason, nw_result, first_result, fn_in>>

SpecMax == InitMax /\ [][CallMaximiser]_vars

-----------------------------------------------------------------------------
(* Properties of the functions *)

\* what is left of a set of cells once the cells alone in their row or alone in
\* their column have been removed again and again
RECURSIVE Elague(_)
Elague(S) ==
    LET seules == {e \in S : \/ \A f \in S : f[1] = e[1] => f = e
                             \/ \A f \in S : f[2] = e[2] => f = e}
    IN  IF seules = {} THEN S ELSE Elague(S \ seules)

\* the positive cells, read as edges between row nodes and column nodes, hold no
\* cycle: removing pendant edges again and again removes them all
EstForet(a) == Elague(Positives(a)) = {}

\* C7: for an allocation whose graph is not connected, rendre_connexe returns, the
\* graph of the allocation afterwards has exactly one connected component over the
\* n + m nodes, and at most n + m - 1 cells were set to epsilon.
C7_RendConnexe ==
    pc = "return" =>
        /\ Len(connected_components(allocation)) = 1
        /\ Len(fn_out) <= NRows(allocation) + NCols(allocation) - 1

\* C8: on an allocation whose positive cells form a forest, tester_acyclique
\* returns (True, []).
C8_ForetAcyclique ==
    (pc = "return" /\ EstForet(fn_in)) => fn_out = <<TRUE, <<>>>>

\* tester_acyclique has returned on a spanning tree of a 3 x 3 matrix in which a
\* row holds three positive cells
C8_Witness ==
    /\ pc = "return"
    /\ EstForet(fn_in)
    /\ NRows(fn_in) = 3
    /\ Len(cellules(fn_in)) = NRows(fn_in) + NCols(fn_in) - 1
    /\ \E i \in 1..NRows(fn_in) : \A j \in 1..NCols(fn_in) : fn_in[i][j] > 0
    /\ fn_out[1]

\* C9: when tester_acyclique returns (True, []), the positive cells form a forest.
C9_AcycliqueForet ==
    (pc = "return" /\ fn_out = <<TRUE, <<>>>>) => EstForet(fn_in)

\* the cells of a cycle at the odd and at the even positions counted from 1: the
\* '+' cells (positions 0, 2, ... of the source) and the '-' cells
Plus(cycle) == {cycle[k] : k \in {x \in 1..Len(cycle) : x % 2 = 1}}
Moins(cycle) == {cycle[k] : k \in {x \in 1..Len(cycle) : x % 2 = 0}}

\* the least allocation over a set of cells
MinSur(a, S) == CHOOSE x \in {At(a, e) : e \in S} : \A e \in S : x <= At(a, e)

\* four cells that go round a 2 x 2 block: each cell shares its row or its column
\* with the next one, the last with the first, and the cells two apart are
\* diagonally opposite
EstBloc(cycle) ==
    /\ Len(cycle) = 4
    /\ \A k \in 1..4 :
         LET e == cycle[k]
             f == cycle[(k % 4) + 1]
         IN  (e[1] = f[1]) \/ (e[2] = f[2])
    /\ cycle[1][1] # cycle[3][1] /\ cycle[1][2] # cycle[3][2]
    /\ cycle[2][1] # cycle[4][1] /\ cycle[2][2] # cycle[4][2]

-----------------------------------------------------------------------------
(* The initial-solution builders, step by step: one call of
   northwest_corner_method or of balas_hammer_method on a balanced instance.
   pc is "call" before the call, "nw" or "bh" inside the main loop and
   "return" after it; fn_in keeps the supplies and demands given, fn_out is
   the working state of the function, nb_iterations counts the passes of the
   main loop, and supplies and demands are the caller's lists. *)

\* largest supply or demand of an instance given to a builder (times 1.0)
MaxOffre == 2

\* largest unit cost of an instance given to a builder
MaxCoutDepart == 3

\* the vectors of k quantities 0.0, 1.0, ... MaxOffre
Quantites(k) == [1..k -> {q * ONE : q \in 0..MaxOffre}]

\* the fallback of the sorting timeout: greedy completion from the empty allocation
BH_Fallback(s, d) ==
    BH_SweepRows([alloc |-> [i \in 1..Len(s) |-> [j \in 1..Len(d) |-> 0]],
                  rs |-> s, rd |-> d], 1, TRUE)

InitDepart ==
    \E sh \in Shapes :
    \E s \in Quantites(sh[1]), d \in Quantites(sh[2]) :
    \E kind \in {"NW", "BH"} :
    \E c \in IF kind = "BH" THEN Matrices(sh[1], sh[2], 1..MaxCoutDepart) ELSE {<<>>} :
        /\ SumSeq(s) = SumSeq(d)
        /\ costs = c
        /\ supplies = s
        /\ demands = d
        /\ fn_in = [supplies |-> s, demands |-> d]
        /\ fn_out = <<>>
        /\ init_kind = kind
        /\ allocation = <<>>
        /\ pc = "call"
        /\ nb_iterations = 0
        /\ expired = FALSE
        /\ exit_reason = ""
        /\ variant = ""
        /\ cycles_elimines = 0
        /\ aretes_ajoutees = <<>>
        /\ u = <<>>
        /\ v = <<>>
        /\ arete = <<>>
        /\ nw_result = <<>>
        /\ first_result = <<>>
        /\ unite = "1e-6"
        /\ entrantes = <<>>

\* northwest_corner_method is entered: the working lists are copies
NWCall ==
    /\ pc = "call"
    /\ init_kind = "NW"
    /\ fn_out' = NW_Init(supplies, demands)
    /\ pc' = "nw"
    /\ UNCHANGED <<unite, entrantes, costs, supplies, demands, allocation, variant, init_kind,
                   nb_iterations, cycles_elimines, aretes_ajoutees, u, v, arete,
                   expired, exit_reason, nw_result, first_result, fn_in>>

\* one pass of the while loop of northwest_corner_method
NWStep ==
    /\ pc = "nw"
    /\ fn_out.i <= Len(fn_out.rs) /\ fn_out.j <= Len(fn_out.rd)
    /\ fn_out' = NW_Step(fn_out)
    /\ nb_iterations' = nb_iterations + 1
    /\ UNCHANGED <<unite, entrantes, costs, supplies, demands, allocation, variant, init_kind, pc,
                   cycles_elimines, aretes_ajoutees, u, v, arete, expired,
                   exit_reason, nw_result, first_result, fn_in>>

\* the while loop is over: return allocation
NWReturn ==
    /\ pc = "nw"
    /\ ~(fn_out.i <= Len(fn_out.rs) /\ fn_out.j <= Len(fn_out.rd))
    /\ allocation' = fn_out.alloc
    /\ pc' = "return"
    /\ UNCHANGED <<unite, entrantes, costs, supplies, demands, variant, init_kind, nb_iterations,
                   cycles_elimines, aretes_ajoutees, u, v, arete, expired,
                   exit_reason, nw_result, first_result, fn_in, fn_out>>

\* balas_hammer_method is entered: the pre-sorting of the rows and columns, whose
\* deadline checks read the clock; a timeout returns the fallback's allocation
BHCall ==
    /\ pc = "call"
    /\ init_kind = "BH"
    /\ \E now \in BOOLEAN :
         /\ expired' = now
         /\ IF now
            THEN /\ fn_out' = BH_Fallback(supplies, demands)
                 /\ allocation' = BH_Fallback(supplies, demands).alloc
                 /\ exit_reason' = "tri"
                 /\ pc' = "return"
            ELSE /\ fn_out' = BH_Init(costs, supplies, demands)
                 /\ pc' = "bh"
                 /\ UNCHANGED <<allocation, exit_reason>>
    /\ UNCHANGED <<unite, entrantes, costs, supplies, demands, variant, init_kind, nb_iterations,
                   cycles_elimines, aretes_ajoutees, u, v, arete, nw_result,
                   first_result, fn_in>>

\* one pass of the main loop of balas_hammer_method: the deadline check, which
\* breaks out of the loop, then the step
BHStep ==
    /\ pc = "bh"
    /\ BH_Active(fn_out)
    /\ \E now \in BOOLEAN :
         /\ expired' = now
         /\ IF now
            THEN /\ exit_reason' = "boucle"
                 /\ pc' = "bh_fin"
                 /\ UNCHANGED <<fn_out, nb_iterations>>
            ELSE /\ fn_out' = BH_Step(costs, fn_out)
                 /\ nb_iterations' = nb_iterations + 1
                 /\ UNCHANGED <<pc, exit_reason>>
    /\ UNCHANGED <<unite, entrantes, costs, supplies, demands, allocation, variant, init_kind,
                   cycles_elimines, aretes_ajoutees, u, v, arete, nw_result,
                   first_result, fn_in>>

\* the main loop is over: the final completion, then return allocation
BHReturn ==
    /\ \/ pc = "bh" /\ ~BH_Active(fn_out)
       \/ pc = "bh_fin"
    /\ fn_out' = BH_Complete(fn_out)
    /\ allocation' = BH_Complete(fn_out).alloc
    /\ pc' = "return"
    /\ UNCHANGED <<unite, entrantes, costs, supplies, demands, variant, init_kind, nb_iterations,
                   cycles_elimines, aretes_ajoutees, u, v, arete, expired,
                   exit_reason, nw_result, first_result, fn_in>>

NextDepart == NWCall \/ NWStep \/ NWReturn \/ BHCall \/ BHStep \/ BHReturn

SpecDepart == InitDepart /\ [][NextDepart]_vars

-----------------------------------------------------------------------------
(* Properties of the initial-solution builders *)

\* the allocation a has non-negative entries, row sums s and column sums d
Realisable(a, s, d) ==
    /\ \A i \in 1..Len(s), j \in 1..Len(d) : a[i][j] >= 0
    /\ \A i \in 1..Len(s) : RowSum(a, i) = s[i]
    /\ \A j \in 1..Len(d) : ColSum(a, j) = d[j]

\* C11: on every balanced instance northwest_corner_method returns an allocation
\* with non-negative entries whose row sums are the supplies and whose column
\* sums are the demands, and at no point of the call do the caller's supply
\* and demand lists differ from the ones given.
C11_NordOuestRealisable ==
    init_kind = "NW" =>
        /\ supplies = fn_in.supplies
        /\ demands = fn_in.demands
        /\ pc = "return" => Realisable(allocation, fn_in.supplies, fn_in.demands)

\* a Northwest-Corner call has returned an allocation that ships something
\* through more than one cell
C11_Witness ==
    /\ init_kind = "NW"
    /\ pc = "return"
    /\ Cardinality(Positives(allocation)) >= 2

\* C12: on every balanced instance balas_hammer_method returns an allocation with
\* non-negative entries whose row sums are the supplies and whose column sums
\* are the demands, whether no deadline fires, the deadline fires during the
\* pre-sorting (fallback), or it fires at the start of a main-loop step
\* (break, then the greedy completion).
C12_BalasHammerRealisable ==
    (init_kind = "BH" /\ pc = "return") =>
        Realisable(allocation, fn_in.supplies, fn_in.demands)

\* the deadline fired at the start of a main-loop step after at least one step,
\* and the greedy completion filled cells the loop had not reached
C12_Witness ==
    /\ init_kind = "BH"
    /\ pc = "return"
    /\ exit_reason = "boucle"
    /\ nb_iterations >= 1
    /\ Cardinality(Positives(allocation)) > nb_iterations

\* C13: northwest_corner_method makes at most n+m-1 passes of its loop; each pass
\* moves exactly one of the row index and the column index, by one; and a pass
\* that exhausts the supply and the demand together moves the row index.
C13_PasNordOuest ==
    /\ [](init_kind = "NW" =>
            nb_iterations <= Len(fn_in.supplies) + Len(fn_in.demands) - 1)
    /\ [][(pc = "nw" /\ nb_iterations' = nb_iterations + 1) =>
            /\ \/ fn_out'.i = fn_out.i + 1 /\ fn_out'.j = fn_out.j
               \/ fn_out'.i = fn_out.i /\ fn_out'.j = fn_out.j + 1
            /\ (fn_out'.rs[fn_out.i] = 0 /\ fn_out'.rd[fn_out.j] = 0) =>
                    fn_out'.i = fn_out.i + 1]_vars

\* a Northwest-Corner call whose first pass exhausted a positive supply and the
\* demand together, and which took n+m-1 passes in all
C13_Witness ==
    /\ init_kind = "NW"
    /\ pc = "return"
    /\ fn_in.supplies[1] > 0
    /\ fn_in.supplies[1] = fn_in.demands[1]
    /\ nb_iterations = Len(fn_in.supplies) + Len(fn_in.demands) - 1

\* C14: on every balanced instance whose costs are not all equal, the allocation
\* balas_hammer_method returns (no deadline fired) costs no more than the one
\* northwest_corner_method returns.
C14_VogelPasPlusCher ==
    (/\ init_kind = "BH"
     /\ pc = "return"
     /\ ~expired
     /\ \E i, k \in 1..NRows(costs), j, l \in 1..NCols(costs) : costs[i][j] # costs[k][l])
    => compute_total_cost(costs, allocation)
         <= compute_total_cost(costs, northwest_corner_method(supplies, demands))

-----------------------------------------------------------------------------
(* The potentials and the entering cell: calculer_potentiels on a cost matrix
   and an allocation, then one of the two entering-cell functions on the
   potentials found.  fn_in is the strategy, fn_out names the function that
   chose the cell, arete is the value it returned. *)

InitPotentiels ==
    \E sh \in Shapes :
    \E c \in Matrices(sh[1], sh[2], 1..MaxCost), a \in Matrices(sh[1], sh[2], {0, ONE}) :
    \E strategy \in {"best", "first"} :
        /\ costs = c
        /\ allocation = a
        /\ fn_in = strategy
        /\ fn_out = <<>>
        /\ aretes_ajoutees = <<>>
        /\ pc = "call"
        /\ AuRepos
        /\ unite = "1e-6"
        /\ entrantes = <<>>

CallCalculerPotentiels ==
    /\ pc = "call"
    /\ u' = calculer_potentiels(costs, allocation)[1]
    /\ v' = calculer_potentiels(costs, allocation)[2]
    /\ pc' = "potentiels"
    /\ UNCHANGED <<unite, entrantes, costs, supplies, demands, allocation, variant, init_kind,
                   nb_iterations, cycles_elimines, aretes_ajoutees, arete, expired,
                   exit_reason, nw_result, first_result, fn_in, fn_out>>

CallDetecterRapide ==
    /\ pc = "potentiels"
    /\ arete' = detecter_arete_ameliorante_rapide(costs, u, v, allocation, fn_in)
    /\ fn_out' = "rapide"
    /\ pc' = "return"
    /\ UNCHANGED <<unite, entrantes, costs, supplies, demands, allocation, variant, init_kind,
                   nb_iterations, cycles_elimines, aretes_ajoutees, u, v, expired,
                   exit_reason, nw_result, first_result, fn_in>>

CallDetecter ==
    /\ pc = "potentiels"
    /\ arete' = detecter_arete_ameliorante(calculer_couts_marginaux(costs, u, v),
                                           allocation, fn_in)
    /\ fn_out' = "table"
    /\ pc' = "return"
    /\ UNCHANGED <<unite, entrantes, costs, supplies, demands, allocation, variant, init_kind,
                   nb_iterations, cycles_elimines, aretes_ajoutees, u, v, expired,
                   exit_reason, nw_result, first_result, fn_in>>

NextPotentiels == CallCalculerPotentiels \/ CallDetecterRapide \/ CallDetecter

SpecPotentiels == InitPotentiels /\ [][NextPotentiels]_vars

-----------------------------------------------------------------------------
(* Properties of the potentials and of the entering cell *)

\* the rows and columns joined to the nodes of S by positive cells of a
RECURSIVE Joints(_, _)
Joints(a, S) ==
    LET plus == {nd \in ({"r"} \X (1..NRows(a))) \cup ({"c"} \X (1..NCols(a))) :
                    \E x \in S : /\ x[1] # nd[1]
                                 /\ IF nd[1] = "r" THEN a[nd[2]][x[2]] > 0
                                                   ELSE a[x[2]][nd[2]] > 0}
    IN  IF plus \subseteq S THEN S ELSE Joints(a, S \cup plus)

\* the nodes reachable from the first row
Atteints(a) == Joints(a, {<<"r", 1>>})

\* the positive cells form a spanning tree: every node is reached, n+m-1 cells
EstArbreCouvrant(a) ==
    /\ Cardinality(Atteints(a)) = NRows(a) + NCols(a)
    /\ Cardinality(Positives(a)) = NRows(a) + NCols(a) - 1

\* C15: calculer_potentiels returns u of length n and v of length m; when the
\* positive cells form a spanning tree, u of the first row is 0 and
\* u[i] + v[j] = cost[i][j] on every positive cell; and whatever the
\* allocation, a node not reachable from the first row has potential 0.
C15_Potentiels ==
    pc \in {"potentiels", "return"} =>
        /\ Len(u) = NRows(allocation)
        /\ Len(v) = NCols(allocation)
        /\ EstArbreCouvrant(allocation) =>
              /\ u[1] = 0
              /\ \A e \in Positives(allocation) : u[e[1]] + v[e[2]] = At(costs, e)
        /\ \A i \in 1..NRows(allocation) : <<"r", i>> \notin Atteints(allocation) => u[i] = 0
        /\ \A j \in 1..NCols(allocation) : <<"c", j>> \notin Atteints(allocation) => v[j] = 0

\* potentials were computed on a spanning tree and one of them is not 0
C15_Witness ==
    /\ pc = "potentiels"
    /\ EstArbreCouvrant(allocation)
    /\ \E i \in 1..Len(u) : u[i] # 0
    /\ \E j \in 1..Len(v) : v[j] # 0

\* c_ij - (u_i + v_j) of the state
Marginal(e) == At(costs, e) - (u[e[1]] + v[e[2]])

\* the cells of allocation 0, and those of marginal cost below -1e-9
Nulles == {e \in (1..NRows(allocation)) \X (1..NCols(allocation)) : At(allocation, e) = 0}
Negatives == {e \in Nulles : Marginal(e) <= -1}

\* row-major order
Avant(e, f) == e[1] < f[1] \/ (e[1] = f[1] /\ e[2] <= f[2])

\* C16: both entering-cell functions return None exactly when no cell of
\* allocation 0 has a marginal cost below -1e-9; otherwise "best" returns a
\* cell of allocation 0 of least marginal cost, the first in row-major order
\* among those, and "first" returns the first cell in row-major order of
\* allocation 0 and marginal cost below -1e-9; the cost returned is the
\* cell's marginal cost.
C16_AreteAmeliorante ==
    pc = "return" =>
        /\ arete = <<>> <=> Negatives = {}
        /\ arete # <<>> =>
              LET e == <<arete[1], arete[2]>> IN
              /\ e \in Negatives
              /\ arete[3] = Marginal(e)
              /\ fn_in = "best" =>
                    \A f \in Nulles : \/ Marginal(e) < Marginal(f)
                                      \/ (Marginal(e) = Marginal(f) /\ Avant(e, f))
              /\ fn_in = "first" => \A f \in Negatives : Avant(e, f)

\* "best" chose among several cells of allocation 0 that share the least
\* marginal cost, which is negative
C16_Witness ==
    /\ pc = "return"
    /\ fn_in = "best"
    /\ arete # <<>>
    /\ \E f \in Negatives : f # <<arete[1], arete[2]>> /\ Marginal(f) = arete[3]

-----------------------------------------------------------------------------
(* is_connected_transport on every pattern of positive cells *)

InitComposantes ==
    \E sh \in FnShapes :
    \E a \in Matrices(sh[1], sh[2], {0, ONE}) :
        /\ allocation = a
        /\ fn_in = a
        /\ fn_out = <<>>
        /\ costs = <<>>
        /\ aretes_ajoutees = <<>>
        /\ pc = "call"
        /\ AuRepos
        /\ unite = "1e-6"
        /\ entrantes = <<>>

CallIsConnected ==
    /\ pc = "call"
    /\ fn_out' = is_connected_transport(allocation)
    /\ pc' = "return"
    /\ UNCHANGED <<unite, entrantes, costs, supplies, demands, allocation, variant, init_kind,
                   nb_iterations, cycles_elimines, aretes_ajoutees, u, v, arete,
                   expired, exit_reason, nw_result, first_result, fn_in>>

SpecComposantes == InitComposantes /\ [][CallIsConnected]_vars

\* the rows and the columns without a positive cell, as nodes of the graph
Isoles(a) ==
    {PNode(i) : i \in {i \in 1..NRows(a) : \A j \in 1..NCols(a) : a[i][j] <= 0}}
    \cup {CNode(j) : j \in {j \in 1..NCols(a) : \A i \in 1..NRows(a) : a[i][j] <= 0}}

\* C17: is_connected_transport answers true exactly when every one of the n+m
\* nodes is joined to the first row by positive cells, that is when the graph
\* has a single component holding all the nodes; the components it returns
\* cover the n+m nodes, a row or a column without a positive cell is one of
\* them by itself, and such a row or column makes the answer false.
C17_Connexe ==
    pc = "return" =>
        LET comps == Range(fn_out[2])
            nodes == {PNode(i) : i \in 1..NRows(allocation)}
                     \cup {CNode(j) : j \in 1..NCols(allocation)}
        IN  /\ fn_out[1] <=>
                  Cardinality(Atteints(allocation)) = NRows(allocation) + NCols(allocation)
            /\ fn_out[1] <=> (Cardinality(comps) = 1 /\ nodes \in comps)
            /\ UNION comps = nodes
            /\ \A x \in Isoles(allocation) : {x} \in comps
            /\ Isoles(allocation) # {} => ~fn_out[1]

\* the positive cells join all the nodes but one row, which has no positive
\* cell: the answer is false and the row is a component by itself
C17_Witness ==
    /\ pc = "return"
    /\ ~fn_out[1]
    /\ Len(fn_out[2]) = 2
    /\ \E i \in 1..NRows(allocation) : Isoles(allocation) = {PNode(i)}

-----------------------------------------------------------------------------
(* Properties of the solver's structural repairs *)

\* C18: in every iteration of the solver, when calculer_potentiels is called the
\* positive cells form a spanning tree of the row/column graph: no cycle, one
\* component holding the n+m nodes, and exactly n+m-1 positive cells,
\* whatever the initial allocation.
C18_ArbreAuxPotentiels ==
    pc = "potentials" => (EstForet(allocation) /\ EstArbreCouvrant(allocation))


\* C19: in the silent solver, once a deadline check has found the budget
\* exceeded, no later step of the run changes the allocation: no connectivity
\* edge is added and no entering cell is pivoted before the solver returns.
C19_ArretNet ==
    [][(variant = "silent" /\ expired /\ pc # "done") => allocation' = allocation]_vars


-----------------------------------------------------------------------------
(* Properties of the cycle tester_acyclique returns *)

\* C20: a cycle returned by tester_acyclique with acyclique = False is made of
\* pairwise distinct cells of positive allocation, has an even length of at
\* least 4, and alternates all the way round: every cell, the last one and
\* the first one included, shares its row with one of its two neighbours on
\* the cycle and its column with the other.
C20_CycleAlterne ==
    (pc = "return" /\ ~fn_out[1]) =>
        LET cycle == fn_out[2]
            L == Len(cycle)
        IN  /\ L >= 4
            /\ L % 2 = 0
            /\ \A x, y \in 1..L : x # y => cycle[x] # cycle[y]
            /\ \A k \in 1..L : At(fn_in, cycle[k]) > 0
            /\ \A k \in 1..L :
                 LET curr == cycle[k]
                     prev == cycle[IF k = 1 THEN L ELSE k - 1]
                     next_cell == cycle[(k % L) + 1]
                 IN  \/ (prev[1] = curr[1] /\ next_cell[2] = curr[2])
                     \/ (prev[2] = curr[2] /\ next_cell[1] = curr[1])

\* tester_acyclique has returned a cycle of six cells
C20_Witness ==
    /\ pc = "return"
    /\ ~fn_out[1]
    /\ Len(fn_out[2]) = 6

-----------------------------------------------------------------------------
(* Properties of connectivity repair *)

\* the allocation rendre_connexe holds when it chooses its k-th cell: the input
\* with the k - 1 cells chosen before set to epsilon
AvantAjout(a, ajoutees, k) ==
    [i \in 1..NRows(a) |-> [j \in 1..NCols(a) |->
        IF \E x \in 1..(k - 1) : ajoutees[x] = <<i, j>> THEN epsilon ELSE a[i][j]]]

\* the cells with allocation 0 that join the first component to a node outside it:
\* a row of the first component with a column outside it, or a column of the first
\* component with a row outside it
Sortantes(a) ==
    LET comp0 == connected_components(a)[1] IN
    {e \in (1..NRows(a)) \X (1..NCols(a)) :
        /\ At(a, e) = 0
        /\ (PNode(e[1]) \in comp0) # (CNode(e[2]) \in comp0)}

\* C21: each cell that rendre_connexe sets to epsilon joins the first component to
\* a node outside it and has the minimum cost among all the cells with allocation 0
\* that do so, at the moment it is chosen.
C21_AreteMoinsChere ==
    pc = "return" =>
        \A k \in 1..Len(fn_out) :
            /\ fn_out[k] \in Sortantes(AvantAjout(fn_in, fn_out, k))
            /\ \A e \in Sortantes(AvantAjout(fn_in, fn_out, k)) :
                   At(costs, fn_out[k]) <= At(costs, e)

-----------------------------------------------------------------------------
(* The cycle-elimination loop on its own: step 1 of an iteration of
   methode_marche_pied (the loop has no cap) and of
   resoudre_marche_pied_silencieux, entered with any allocation.  Quantities
   are counted in units of 5e-10: 1 is below 1e-9, 2 is 1e-9, 3 is above it and
   4000 is 2e-6.  The loop never reads the costs, which serve the total cost of
   the allocation only: the cost matrices are the uniform ones. *)

\* the quantities of the allocations handed to the loop, in units of 5e-10
QuantitesFines == {0, 1, 2, 3, 4000}

\* 1e-6 in the unit of the behaviour
Tolerance == IF unite = "5e-10" THEN 2000 ELSE 1

InitElimination ==
    \E sh \in Shapes :
    \E k \in 1..MaxCost, a \in Matrices(sh[1], sh[2], QuantitesFines) :
        /\ costs = [i \in 1..sh[1] |-> [j \in 1..sh[2] |-> k]]
        /\ supplies = SuppliesOf(a)
        /\ demands = DemandsOf(a)
        /\ allocation = a
        /\ variant \in {"mp", "silent"}
        /\ init_kind = "any"
        /\ pc = "acyclic"
        /\ nb_iterations = 1
        /\ cycles_elimines = 0
        /\ aretes_ajoutees = <<>>
        /\ u = <<>>
        /\ v = <<>>
        /\ arete = <<>>
        /\ expired = FALSE
        /\ exit_reason = ""
        /\ nw_result = <<>>
        /\ first_result = <<>>
        /\ fn_in = a
        /\ fn_out = <<>>
        /\ unite = "5e-10"
        /\ entrantes = <<>>

SpecElimination == InitElimination /\ [][CycleRound]_vars

\* a round of the loop in which tester_acyclique reported a cycle: the count of
\* resolved cycles goes up
CycleResolu == cycles_elimines' = cycles_elimines + 1

\* the cycle reported in the round that starts in this state
CycleDetecte == tester_acyclique(allocation)[2]

\* the delta of that cycle is at most 1e-9
DeltaNul == MinSur(allocation, Moins(CycleDetecte)) <= seuil

\* C22: the cycle-elimination loop terminates for every allocation.  Each round in
\* which tester_acyclique reports a cycle ends with strictly fewer positive cells
\* than it started with and creates none: a '-' cell is zeroed when delta > 1e-9,
\* the first cell of the cycle otherwise; a round without a cycle leaves the loop.
\* So the loop runs at most as many rounds with a cycle as the allocation it was
\* entered with has positive cells.
C22_EliminationTermine ==
    /\ [][CycleResolu =>
            /\ Positives(allocation') \subseteq Positives(allocation)
            /\ Positives(allocation') # Positives(allocation)
            /\ IF DeltaNul
               THEN At(allocation', CycleDetecte[1]) = 0
               ELSE \E e \in Moins(CycleDetecte) : At(allocation', e) = 0]_vars
    /\ [][~CycleResolu => pc' # pc]_vars
    /\ [](cycles_elimines <= Cardinality(Positives(fn_in)))

\* the uncapped loop of methode_marche_pied has resolved two cycles, one by a
\* delta above 1e-9 and one by forcing a first cell to 0, and has been left
C22_Witness ==
    /\ variant = "mp"
    /\ pc = "connect"
    /\ cycles_elimines >= 2
    /\ \E e \in Cells : At(fn_in, e) \in 1..2 /\ At(allocation, e) = 0
    /\ \E e \in Cells : At(fn_in, e) > 0 /\ At(allocation, e) > At(fn_in, e)

\* C23: when a cycle detected during cycle elimination has delta <= 1e-9, forcing
\* the first cell of the cycle to 0 removes the cycle (one of its cells is no longer
\* positive) and leaves the total cost, every row sum and every column sum of the
\* allocation unchanged within 1e-6.
C23_CycleDegenere ==
    [][(CycleResolu /\ DeltaNul) =>
          /\ At(allocation', CycleDetecte[1]) = 0
          /\ Abs(compute_total_cost(costs, allocation')
                   - compute_total_cost(costs, allocation)) <= Tolerance
          /\ \A i \in 1..NRows(allocation) :
               Abs(RowSum(allocation', i) - RowSum(allocation, i)) <= Tolerance
          /\ \A j \in 1..NCols(allocation) :
               Abs(ColSum(allocation', j) - ColSum(allocation, j)) <= Tolerance]_vars

-----------------------------------------------------------------------------
(* solve entered with any allocation: both solvers on every pattern of cells
   holding 0 or 1.0, the supplies and demands being the row sums and column sums
   of that allocation, so that it is feasible for a balanced instance *)

InitQuelconque ==
    \E sh \in Shapes :
    \E c \in Matrices(sh[1], sh[2], 1..MaxCost), a \in Matrices(sh[1], sh[2], {0, ONE}) :
        /\ costs = c
        /\ supplies = SuppliesOf(a)
        /\ demands = DemandsOf(a)
        /\ allocation = a
        /\ variant \in {"mp", "silent"}
        /\ init_kind = "any"
        /\ pc = "loop"
        /\ nb_iterations = 0
        /\ cycles_elimines = 0
        /\ aretes_ajoutees = <<>>
        /\ u = <<>>
        /\ v = <<>>
        /\ arete = <<>>
        /\ expired = FALSE
        /\ exit_reason = ""
        /\ nw_result = <<>>
        /\ first_result = <<>>
        /\ fn_in = a
        /\ fn_out = <<>>
        /\ unite = "1e-6"
        /\ entrantes = <<>>

NextQuelconque == Iterate \/ CycleRound \/ Connect \/ Optimal \/ Pivot

SpecQuelconque == InitQuelconque /\ [][NextQuelconque]_vars
-----------------------------------------------------------------------------
(* Properties of the pivot *)

\* the step is a pivot: steps 3 to 7 of an iteration with an entering cell
PivotFait == pc = "potentials" /\ pc' = "loop"

\* the delta maximiser_sur_cycle returns in the pivot that enters the cell e
DeltaPivot(e) ==
    maximiser_sur_cycle(SetCell(allocation, e, ONE),
                        trouver_cycle_avec_arete(SetCell(allocation, e, ONE), e)).delta

\* C24: when the pivot's delta is <= 1e-9, after the step every cell that
\* rendre_connexe set to epsilon in this iteration is 0, the entering cell holds
\* 1e-6, every other cell is unchanged, and the number of positive cells is n+m-1.
C24_PivotDegenere ==
    [][(PivotFait /\ DeltaPivot(arete') <= seuil) =>
          /\ \A e \in Range(aretes_ajoutees) : At(allocation', e) = 0
          /\ At(allocation', arete') = epsilon
          /\ \A e \in Cells \ (Range(aretes_ajoutees) \cup {arete'}) :
               At(allocation', e) = At(allocation, e)
          /\ Cardinality(Positives(allocation')) = NRows(costs) + NCols(costs) - 1]_vars

-----------------------------------------------------------------------------
(* trouver_cycle_avec_arete on its own: every pattern of positive cells and every
   cell with allocation 0, which the caller sets to the placeholder 1.0 before
   the call *)

InitTrouverCycle ==
    \E sh \in FnShapes :
    \E a \in Matrices(sh[1], sh[2], {0, ONE}) :
    \E e \in (1..sh[1]) \X (1..sh[2]) :
        /\ At(a, e) = 0
        /\ allocation = a
        /\ fn_in = [a |-> a, ajout |-> e]
        /\ fn_out = <<>>
        /\ costs = <<>>
        /\ aretes_ajoutees = <<>>
        /\ pc = "call"
        /\ AuRepos
        /\ unite = "1e-6"
        /\ entrantes = <<>>

\* allocation[i_ameliorant][j_ameliorant] = 1.0, then the call
CallTrouverCycle ==
    /\ pc = "call"
    /\ allocation' = SetCell(allocation, fn_in.ajout, ONE)
    /\ fn_out' = trouver_cycle_avec_arete(SetCell(allocation, fn_in.ajout, ONE), fn_in.ajout)
    /\ pc' = "return"
    /\ UNCHANGED <<unite, entrantes, costs, supplies, demands, variant, init_kind, nb_iterations,
                   cycles_elimines, aretes_ajoutees, u, v, arete, expired,
                   exit_reason, nw_result, first_result, fn_in>>

SpecTrouverCycle == InitTrouverCycle /\ [][CallTrouverCycle]_vars

\* C25: when the positive cells form a spanning tree and the cell (i, j) of
\* allocation 0 is set positive, trouver_cycle_avec_arete returns the unique cycle
\* closed by (i, j): its cells are those left of the tree and (i, j) once the
\* pendant cells are removed again and again; it starts with (i, j), its other
\* cells are positive cells of the tree, all cells are distinct, its length is
\* even and at least 4, and consecutive cells share a row, then a column, in turn,
\* the last cell sharing a column with (i, j).  When no path joins row i to
\* column j without the new cell, it returns the single-cell list [(i, j)].
C25_CycleFerme ==
    pc = "return" =>
        LET a == fn_in.a
            e == fn_in.ajout
            cycle == fn_out
            L == Len(fn_out)
        IN  /\ (EstArbreCouvrant(a) /\ EstForet(a)) =>
                 /\ Range(cycle) = Elague(Positives(a) \cup {e})
                 /\ cycle[1] = e
                 /\ \A k \in 2..L : At(a, cycle[k]) > 0
                 /\ \A x, y \in 1..L : x # y => cycle[x] # cycle[y]
                 /\ L >= 4
                 /\ L % 2 = 0
                 /\ \A k \in 1..L :
                      LET f == cycle[k]
                          g == cycle[(k % L) + 1]
                      IN  IF k % 2 = 1 THEN f[1] = g[1] /\ f[2] # g[2]
                                       ELSE f[2] = g[2] /\ f[1] # g[1]
            /\ (<<"c", e[2]>> \notin Joints(a, {<<"r", e[1]>>})) => cycle = <<e>>

\* the cell added to a spanning tree of a 3 x 3 matrix closed a cycle of 6 cells
C25_Witness ==
    /\ pc = "return"
    /\ EstArbreCouvrant(fn_in.a)
    /\ EstForet(fn_in.a)
    /\ Len(fn_out) = 6


\* C26: every entry of the allocation matrix is non-negative in every state solve
\* reaches, after every cycle resolution, connectivity repair and pivot, for any
\* initial allocation with non-negative entries.
C26_NonNegatif ==
    \A e \in Cells : At(allocation, e) >= 0

\* a pivot has moved a quantity round its cycle, in an iteration that repaired the
\* connectivity, and emptied a cell that was positive in the initial allocation
C26_Witness ==
    /\ pc = "loop"
    /\ arete # <<>>
    /\ aretes_ajoutees # <<>>
    /\ \E e \in Cells : At(allocation, e) > ONE
    /\ \E e \in Cells : At(fn_in, e) > 0 /\ At(allocation, e) = 0


\* the cost of the quantity 1e-6 on each cell rendre_connexe added in this iteration
CoutAjoutees ==
    SumSeq([k \in 1..Len(aretes_ajoutees) |-> At(costs, aretes_ajoutees[k]) * epsilon])

\* C27: in solve started from a feasible allocation of a balanced instance, the
\* total cost after an iteration that pivoted on an entering cell (of negative
\* marginal cost) is not greater than the total cost at the start of that
\* iteration, beyond 1e-6 per repair edge (counted at the cost of the edge).
\* Stated on the first iteration, which starts with the initial allocation.
C27_CoutDecroit ==
    (pc = "loop" /\ nb_iterations = 1 /\ arete # <<>>) =>
        compute_total_cost(costs, allocation)
            <= compute_total_cost(costs, fn_in) + CoutAjoutees


-----------------------------------------------------------------------------
(* The silent solver and the loop of main.py on the same instance *)

\* The instances of main.py: a cost matrix, supplies and demands that are positive
\* and balanced, and the Northwest-Corner or the Balas-Hammer allocation.  The
\* silent solver runs first; fn_in keeps the initial allocation.
InitPrincipal ==
    \E sh \in Shapes :
    \E c \in Matrices(sh[1], sh[2], 1..MaxCost), t \in Matrices(sh[1], sh[2], 0..MaxQty) :
    \E kind \in {"NW", "BH"} :
    LET s == SuppliesOf(Scaled(t))
        d == DemandsOf(Scaled(t))
        a == IF kind = "NW" THEN northwest_corner_method(s, d)
                            ELSE balas_hammer_method(c, s, d)
    IN  /\ \A i \in 1..sh[1] : s[i] > 0
        /\ \A j \in 1..sh[2] : d[j] > 0
        /\ costs = c
        /\ supplies = s
        /\ demands = d
        /\ variant = "silent"
        /\ init_kind = kind
        /\ allocation = a
        /\ pc = "loop"
        /\ nb_iterations = 0
        /\ cycles_elimines = 0
        /\ aretes_ajoutees = <<>>
        /\ u = <<>>
        /\ v = <<>>
        /\ arete = <<>>
        /\ expired = FALSE
        /\ exit_reason = ""
        /\ nw_result = <<>>
        /\ first_result = <<>>
        /\ fn_in = a
        /\ fn_out = <<>>
        /\ unite = "1e-6"
        /\ entrantes = <<>>

\* The silent solver has returned: what it did is kept in fn_out, and the loop of
\* main.py starts on the same instance from the same initial allocation.
Rejouer ==
    /\ pc = "done"
    /\ variant = "silent"
    /\ fn_out' = [allocation |-> allocation, nb_iterations |-> nb_iterations,
                  entrantes |-> entrantes, exit_reason |-> exit_reason,
                  expired |-> expired]
    /\ variant' = "main"
    /\ StartRun(fn_in, init_kind)
    /\ UNCHANGED <<unite, costs, supplies, demands, nw_result, first_result, fn_in>>

NextPrincipal == Iterate \/ CycleRound \/ Connect \/ Optimal \/ Pivot \/ Rejouer

SpecPrincipal == InitPrincipal /\ [][NextPrincipal]_vars

\* C28: when neither run hits an iteration cap, a cycle cap or the deadline (both
\* leave their loop on "no entering cell", and the silent solver never saw its
\* budget exceeded), the loop of main.py has taken the same entering cells in the
\* same order as the silent solver, ends on the same allocation and has counted
\* the same number of iterations.
C28_MemeDeroulement ==
    (/\ variant = "main"
     /\ pc = "done"
     /\ exit_reason = "optimal"
     /\ fn_out.exit_reason = "optimal"
     /\ ~fn_out.expired)
    => /\ entrantes = fn_out.entrantes
       /\ allocation = fn_out.allocation
       /\ nb_iterations = fn_out.nb_iterations


\* the number of connected components of a forest over the n + m nodes: the nodes
\* less the edges
NbComposantes(a) == NRows(a) + NCols(a) - Cardinality(Positives(a))

\* the k-th cell set to epsilon joins two different components of the allocation
\* as it stands when the cell is chosen: its column is not joined to its row
JointDeux(a, ajoutees, k) ==
    /\ At(AvantAjout(a, ajoutees, k), ajoutees[k]) = 0
    /\ <<"c", ajoutees[k][2]>> \notin
           Joints(AvantAjout(a, ajoutees, k), {<<"r", ajoutees[k][1]>>})

\* C29: on an allocation whose positive cells form a forest with k connected
\* components (and k > 1), rendre_connexe sets exactly k - 1 cells to epsilon and
\* changes no other cell, each of these cells joins two different components, and
\* the positive cells of the result form a forest again.
C29_ReparationForet ==
    (pc = "return" /\ EstForet(fn_in)) =>
        /\ Len(fn_out) = NbComposantes(fn_in) - 1
        /\ allocation = AvantAjout(fn_in, fn_out, Len(fn_out) + 1)
        /\ \A k \in 1..Len(fn_out) : JointDeux(fn_in, fn_out, k)
        /\ EstForet(allocation)


-----------------------------------------------------------------------------
(* maximiser_sur_cycle on closed alternating cycles, quantities counted in
   units of 5e-10: 3 is 1.5e-9, 4 is 2e-9 and 4000 is 2e-6, so that a '-' cell
   can be left with 5e-10, below the 1e-9 of the clean-up. *)

\* the quantities of the cells on the cycle
QuantitesTour == {0, 3, 4, 4000}

\* The sequence of 2k cells that goes through the rows rs and the columns cs (k of
\* each): (r1,c1), (r1,c2), (r2,c2), ... (rk,c1) when the first two cells share
\* their row, (r1,c1), (r2,c1), (r2,c2), ... (r1,ck) when they share their column.
Tour(rs, cs, sens) ==
    LET k == Len(rs) IN
    [p \in 1..(2 * k) |->
        IF sens = "ligne"
        THEN <<rs[(p + 1) \div 2], cs[((p \div 2) % k) + 1]>>
        ELSE <<rs[((p \div 2) % k) + 1], cs[(p + 1) \div 2]>>]

\* the cycles of 4 and 6 cells of an n x m matrix
Tours(n, m) ==
    UNION {{Tour(rs, cs, sens) : rs \in {x \in SeqsDistinct(1..n, k) : Len(x) = k},
                                 cs \in {x \in SeqsDistinct(1..m, k) : Len(x) = k},
                                 sens \in {"ligne", "colonne"}} : k \in 2..3}

InitTour ==
    \E sh \in FnShapes :
    \E cycle \in Tours(sh[1], sh[2]) :
    \E q \in [1..Len(cycle) -> QuantitesTour], w \in {0, 4000} :
    LET a == [i \in 1..sh[1] |-> [j \in 1..sh[2] |->
                 IF \E p \in 1..Len(cycle) : cycle[p] = <<i, j>>
                 THEN q[CHOOSE p \in 1..Len(cycle) : cycle[p] = <<i, j>>]
                 ELSE w]]
    IN  /\ allocation = a
        /\ fn_in = [a |-> a, cycle |-> cycle]
        /\ fn_out = <<>>
        /\ costs = <<>>
        /\ aretes_ajoutees = <<>>
        /\ pc = "call"
        /\ AuRepos
        /\ unite = "5e-10"
        /\ entrantes = <<>>

SpecTour == InitTour /\ [][CallMaximiser]_vars

\* a cycle of transport: an even number of cells, at least 4, pairwise distinct,
\* where going round (from the last cell back to the first as well) the steps stay
\* in a row and in a column in turn
EstCycleAlterne(cycle) ==
    LET L == Len(cycle)
        suivant(k) == cycle[(k % L) + 1]
    IN  /\ L >= 4
        /\ L % 2 = 0
        /\ \A x, y \in 1..L : x # y => cycle[x] # cycle[y]
        /\ \/ \A k \in 1..L : IF k % 2 = 1 THEN cycle[k][1] = suivant(k)[1]
                                           ELSE cycle[k][2] = suivant(k)[2]
           \/ \A k \in 1..L : IF k % 2 = 1 THEN cycle[k][2] = suivant(k)[2]
                                           ELSE cycle[k][1] = suivant(k)[1]

\* what a row or column sum may lose to the clean-up: nothing when it holds no '-'
\* cell, less than 1e-9 for each '-' cell it holds otherwise
PerteAdmise(perte, nb_moins) ==
    /\ perte >= 0
    /\ perte = 0 \/ perte < plafond * nb_moins

\* C30: on a cycle of even length at least 4 whose consecutive cells share a row
\* and a column in turn, and an allocation without negative entry,
\* maximiser_sur_cycle leaves every row sum and every column sum as it was, less
\* what the clean-up of the '-' cells below 1e-9 removes, and no entry is negative
\* afterwards.
C30_SommesConservees ==
    (/\ pc = "return"
     /\ EstCycleAlterne(fn_in.cycle)
     /\ \A e \in (1..NRows(fn_in.a)) \X (1..NCols(fn_in.a)) : At(fn_in.a, e) >= 0)
    => /\ \A i \in 1..NRows(allocation) :
            PerteAdmise(RowSum(fn_in.a, i) - RowSum(allocation, i),
                        Cardinality({e \in Moins(fn_in.cycle) : e[1] = i}))
       /\ \A j \in 1..NCols(allocation) :
            PerteAdmise(ColSum(fn_in.a, j) - ColSum(allocation, j),
                        Cardinality({e \in Moins(fn_in.cycle) : e[2] = j}))
       /\ \A e \in (1..NRows(allocation)) \X (1..NCols(allocation)) :
            At(allocation, e) >= 0

\* maximiser_sur_cycle has moved delta = 1.5e-9 round a cycle of six cells: a '-'
\* cell that held 2e-9 was left with 5e-10 and set to 0, its row now sums to
\* 5e-10 less, and another '-' cell keeps a positive quantity
C30_Witness ==
    /\ pc = "return"
    /\ EstCycleAlterne(fn_in.cycle)
    /\ Len(fn_in.cycle) = 6
    /\ fn_out = 3
    /\ \E e \in Moins(fn_in.cycle) :
         /\ At(fn_in.a, e) = 4
         /\ At(allocation, e) = 0
         /\ RowSum(fn_in.a, e[1]) - RowSum(allocation, e[1]) = 1
    /\ \E e \in Moins(fn_in.cycle) : At(allocation, e) = 3997

=============================================================================
